---- MODULE Spec2Model ----
(***************************************************************************)
(* Statement ingestion of privy-finance: the document processing handler   *)
(* (src/app/api/documents/[id]/process/route.ts), its sanitize / merge /   *)
(* summarize functions and the transaction_summaries table they write.     *)
(*                                                                         *)
(* Money is an integer number of half-cents, so that the rounding to 2     *)
(* decimals done by roundMoney is a real conversion: 0.01 is 2, 1.00 is    *)
(* 200, 0.005 is 1.  A date is the integer YYYYMMDD                        *)
(* of an ISO date string (integer order = lexicographic order of the       *)
(* fixed-width strings); a date text that is not of ISO shape is a         *)
(* negative number.  A description is a sequence of characters.            *)
(***************************************************************************)
EXTENDS Integers, Sequences, FiniteSets, TLC

\* ------------------------------------------------------------------ bounds
\* Handler runs started in one behaviour.
MaxStarts == 2
\* Items handed to one invocation of runInBatches.
MaxItems == 3
\* Transactions the PDF strategies read off one statement, all together.
MaxPdfRows == 3
\* Data lines of a CSV text.
MaxCsvLines == 3
\* Candidate rows handed to the sanitize step.
MaxSanitizeRows == 2
\* Merchants of a list handed to the aggregators.
MaxMerchants == 11
\* Rows of a sheet handed to parseRowsToTransactions.
MaxSheetRows == 3
\* API requests of the first client, and of the second, to the middleware.
MaxRequests == 32
MaxOtherRequests == 1

\* ------------------------------------------------- constants of the source
\* Money unit of the model: half a cent.  CENT is 0.01, UNIT is 1.00.
CENT == 2
UNIT == 200
\* 5_000_000 (route.ts:17) in half-cents
DEFAULT_MAX_TRANSACTION_ABS == 1000000000
\* 9_999_999_999.99 (route.ts:16) is 1,999,999,999,998 half-cents, beyond the
\* 32-bit integers of TLC; the largest even integer stands for it.  Every sum
\* the model forms is below it, as it is below the real bound.
NUMERIC_12_2_MAX_ABS == 2147483646
\* process.env.PROCESSING_MAX_TRANSACTION_ABS || NEAR_AI_MAX_TRANSACTION_AMOUNT:
\* 0 stands for both being unset (Number(undefined) is NaN)
ENV_MAX_TRANSACTION_ABS == 0
\* slice(0, 10) of summarizeTransactions, slice(0, 5) of groupTransactionsByMonth
TOP_MERCHANTS == 10
TOP_MERCHANTS_PER_FILE == 5
\* description.substring(0, 50)
MERCHANT_KEY_LEN == 50

Abs(x) == IF x < 0 THEN -x ELSE x
Min(a, b) == IF a < b THEN a ELSE b
Max(a, b) == IF a > b THEN a ELSE b

\* Number.prototype.toFixed(2): the sign and the cents of the text, the cent
\* nearest to the double that the amount is.  Of the half-cent amounts the
\* model forms, 0.005 is a double above the tie (0.005000000000000000104)
\* and the others are doubles below it (2.005 is 2.00499999999999989).
toFixed2(value) ==
    LET mag == Abs(value)
    IN  [negative |-> value < 0,
         cents |-> IF mag = 1 THEN 1 ELSE mag \div CENT]

\* route.ts 24-26: Number(value.toFixed(2))
roundMoney(value) ==
    LET fixed == toFixed2(value)
    IN  IF fixed.negative THEN -(fixed.cents * CENT) ELSE fixed.cents * CENT

clampNumeric12(value) ==
    roundMoney(Min(Max(value, -NUMERIC_12_2_MAX_ABS), NUMERIC_12_2_MAX_ABS))

getMaxTransactionAbs ==
    IF ENV_MAX_TRANSACTION_ABS > 0
    THEN Min(ENV_MAX_TRANSACTION_ABS, NUMERIC_12_2_MAX_ABS)
    ELSE DEFAULT_MAX_TRANSACTION_ABS

\* /^\d{4}-\d{2}-\d{2}$/
isIsoDate(value) == value >= 0 /\ value <= 99999999

\* String.prototype.trim on a sequence of characters
RECURSIVE TrimStart(_)
TrimStart(s) == IF s # <<>> /\ Head(s) = " " THEN TrimStart(Tail(s)) ELSE s
RECURSIVE TrimEnd(_)
TrimEnd(s) ==
    IF s # <<>> /\ s[Len(s)] = " " THEN TrimEnd(SubSeq(s, 1, Len(s) - 1)) ELSE s
Trim(s) == TrimEnd(TrimStart(s))

\* Array.prototype.sort((a, b) => a.date.localeCompare(b.date)): stable
RECURSIVE InsertByDate(_, _)
InsertByDate(sorted, tx) ==
    IF sorted = <<>> THEN <<tx>>
    ELSE IF sorted[Len(sorted)].date <= tx.date THEN Append(sorted, tx)
         ELSE Append(InsertByDate(SubSeq(sorted, 1, Len(sorted) - 1), tx),
                     sorted[Len(sorted)])
RECURSIVE SortByDate(_)
SortByDate(s) ==
    IF s = <<>> THEN <<>>
    ELSE InsertByDate(SortByDate(SubSeq(s, 1, Len(s) - 1)), s[Len(s)])

\* the month key `${tx.date.substring(0, 7)}-01`
MonthOf(date) == (date \div 100) * 100 + 1

RECURSIVE SeqSum(_)
SeqSum(s) == IF s = <<>> THEN 0 ELSE Head(s) + SeqSum(Tail(s))

Range(s) == {s[i] : i \in 1..Len(s)}

\* ------------------------------------------------ sanitize (route.ts 57-110)
\* the source_document_id `undefined` of a stored transaction
NoSourceDocument == ""

\* Number(tx.amount) of an amount that is no number (NaN); no amount that is
\* a number has this value
NotANumber == 2147483647

\* the filters without the one on the smallest magnitude
sanitizeWithoutFloor(transactions) ==
    LET maxAbs == getMaxTransactionAbs
        mapped == [i \in 1..Len(transactions) |->
                     [date        |-> transactions[i].date,
                      description |-> Trim(transactions[i].description),
                      amount      |-> transactions[i].amount,
                      category    |-> IF transactions[i].category = "" THEN "other"
                                      ELSE transactions[i].category]]
        kept == SelectSeq(mapped, LAMBDA tx:
                    /\ isIsoDate(tx.date)
                    /\ Len(tx.description) > 0
                    /\ tx.amount # NotANumber
                    /\ Abs(tx.amount) <= maxAbs)
    IN  [i \in 1..Len(kept) |-> [kept[i] EXCEPT !.amount = roundMoney(@)]]
\* route.ts 57-76
sanitizeTransactionsForStorage(transactions) ==
    LET maxAbs == getMaxTransactionAbs
        mapped == [i \in 1..Len(transactions) |->
                     [date        |-> transactions[i].date,
                      description |-> Trim(transactions[i].description),
                      amount      |-> transactions[i].amount,
                      category    |-> IF transactions[i].category = "" THEN "other"
                                      ELSE transactions[i].category]]
        kept == SelectSeq(mapped, LAMBDA tx:
                    /\ isIsoDate(tx.date)
                    /\ Len(tx.description) > 0
                    /\ tx.amount # NotANumber
                    /\ Abs(tx.amount) >= CENT
                    /\ Abs(tx.amount) <= maxAbs)
    IN  [i \in 1..Len(kept) |-> [kept[i] EXCEPT !.amount = roundMoney(@)]]

\* the thrown Error of buildParseResultFromTransactions
NoValidRows == [ok |-> FALSE]

buildParseResultFromTransactions(transactions) ==
    LET sanitizedTransactions == sanitizeTransactionsForStorage(transactions)
        sorted == SortByDate(sanitizedTransactions)
        income == SelectSeq(sorted, LAMBDA tx: tx.amount > 0)
        expenses == SelectSeq(sorted, LAMBDA tx: ~(tx.amount > 0))
    IN  IF Len(sanitizedTransactions) = 0 THEN NoValidRows
        ELSE [ok            |-> TRUE,
              transactions  |-> sorted,
              totalIncome   |-> clampNumeric12(
                                  SeqSum([i \in 1..Len(income) |-> income[i].amount])),
              totalExpenses |-> clampNumeric12(
                                  SeqSum([i \in 1..Len(expenses) |-> Abs(expenses[i].amount)])),
              dateRange     |-> [start |-> sorted[1].date,
                                 end   |-> sorted[Len(sorted)].date]]

\* ----------------------------------------- merge (route.ts 337-394)
\* a normalisation that does not carry source_document_id over
normalizeWithoutSource(input) ==
    LET kept == SelectSeq(input, LAMBDA item:
                    /\ Len(Trim(item.description)) > 0
                    /\ isIsoDate(item.date)
                    /\ Abs(item.amount) >= CENT
                    /\ Abs(item.amount) <= getMaxTransactionAbs)
    IN  [i \in 1..Len(kept) |->
           [date        |-> kept[i].date,
            description |-> Trim(kept[i].description),
            amount      |-> roundMoney(kept[i].amount),
            category    |-> IF kept[i].category = "" THEN "other" ELSE kept[i].category,
            source_document_id |-> NoSourceDocument]]
normalizeStoredTransactions(input) ==
    LET mapped == [i \in 1..Len(input) |->
                     [date        |-> input[i].date,
                      description |-> Trim(input[i].description),
                      amount      |-> input[i].amount,
                      category    |-> IF input[i].category = "" THEN "other"
                                      ELSE input[i].category,
                      source_document_id |-> input[i].source_document_id]]
        kept == SelectSeq(mapped, LAMBDA item:
                    /\ Len(item.description) > 0
                    /\ isIsoDate(item.date)
                    /\ Abs(item.amount) >= CENT
                    /\ Abs(item.amount) <= getMaxTransactionAbs)
    IN  [i \in 1..Len(kept) |-> [kept[i] EXCEPT !.amount = roundMoney(@)]]

\* the transactions of one month, tagged; a month without transactions has <<>>
buildTransactionsByMonth(transactions, sourceDocumentId) ==
    [month \in {MonthOf(transactions[i].date) : i \in 1..Len(transactions)} |->
        LET ofMonth == SelectSeq(transactions, LAMBDA tx: MonthOf(tx.date) = month)
        IN  [i \in 1..Len(ofMonth) |->
               [date        |-> ofMonth[i].date,
                description |-> ofMonth[i].description,
                amount      |-> ofMonth[i].amount,
                category    |-> IF ofMonth[i].category = "" THEN "other"
                                ELSE ofMonth[i].category,
                source_document_id |-> sourceDocumentId]]]

\* a merge that keeps the earlier contribution of the document
appendAllTransactions(existing, incoming, sourceDocumentId) ==
    LET normalizedIncoming == normalizeStoredTransactions(incoming)
    IN  SortByDate(normalizeStoredTransactions(existing)
                   \o [i \in 1..Len(normalizedIncoming) |->
                         [normalizedIncoming[i] EXCEPT
                             !.source_document_id = sourceDocumentId]])
mergeAllTransactions(existing, incoming, sourceDocumentId) ==
    LET existingTransactions ==
            SelectSeq(normalizeStoredTransactions(existing),
                      LAMBDA tx: tx.source_document_id # sourceDocumentId)
        normalizedIncoming == normalizeStoredTransactions(incoming)
        incomingTransactions ==
            [i \in 1..Len(normalizedIncoming) |->
               [normalizedIncoming[i] EXCEPT !.source_document_id = sourceDocumentId]]
    IN  SortByDate(existingTransactions \o incomingTransactions)

\* ------------------------------------- aggregation (route.ts 396-442)
\* category.replace('income_', '') on the category strings of the model
StripIncomePrefix(category) ==
    CASE category = "income_salary"     -> "salary"
      [] category = "income_investment" -> "investment"
      [] category = "income_other"      -> "other"
      [] category = "income_"           -> ""
      [] OTHER                          -> category

\* description.substring(0, 50)
MerchantKey(description) ==
    SubSeq(description, 1, Min(MERCHANT_KEY_LEN, Len(description)))

\* keys of an object in insertion order: first occurrences, in order
RECURSIVE FirstOccurrences(_)
FirstOccurrences(s) ==
    IF s = <<>> THEN <<>>
    ELSE LET init == FirstOccurrences(SubSeq(s, 1, Len(s) - 1))
         IN  IF s[Len(s)] \in Range(init) THEN init ELSE Append(init, s[Len(s)])

\* Array.prototype.sort((a, b) => b.amount - a.amount): stable, descending
RECURSIVE InsertByAmountDesc(_, _)
InsertByAmountDesc(sorted, e) ==
    IF sorted = <<>> THEN <<e>>
    ELSE IF sorted[Len(sorted)].amount >= e.amount THEN Append(sorted, e)
         ELSE Append(InsertByAmountDesc(SubSeq(sorted, 1, Len(sorted) - 1), e),
                     sorted[Len(sorted)])
RECURSIVE SortByAmountDesc(_)
SortByAmountDesc(s) ==
    IF s = <<>> THEN <<>>
    ELSE InsertByAmountDesc(SortByAmountDesc(SubSeq(s, 1, Len(s) - 1)), s[Len(s)])

\* the merchant buckets of a list of expenses, sorted, cut to `limit` entries.
\* The buckets are properties of an object literal ({}): under a name that
\* every object inherits (constructor, toString, valueOf) the test
\* !merchantMap[merchant] finds the inherited function, no bucket is set and
\* Object.entries, which lists own properties, never shows the name.
TopMerchants(expenses, limit) ==
    LET inherited == {<<"c", "o", "n", "s", "t", "r", "u", "c", "t", "o", "r">>,
                      <<"t", "o", "S", "t", "r", "i", "n", "g">>,
                      <<"v", "a", "l", "u", "e", "O", "f">>}
        names == SelectSeq(
                     FirstOccurrences(
                         [i \in 1..Len(expenses) |-> MerchantKey(expenses[i].description)]),
                     LAMBDA name : name \notin inherited)
        bucket(name) == SelectSeq(expenses, LAMBDA tx: MerchantKey(tx.description) = name)
        entries == [i \in 1..Len(names) |->
                      [name   |-> names[i],
                       amount |-> SeqSum([j \in 1..Len(bucket(names[i])) |->
                                            Abs(bucket(names[i])[j].amount)]),
                       count  |-> Len(bucket(names[i]))]]
        sorted == SortByAmountDesc(entries)
    IN  SubSeq(sorted, 1, Min(limit, Len(sorted)))

\* an object of running sums: for every key of `keys`, the sum of the
\* amounts at the positions of that key
SumByKey(keys, amounts) ==
    [k \in Range(keys) |->
        SeqSum([i \in 1..Len(keys) |-> IF keys[i] = k THEN amounts[i] ELSE 0])]

\* an expense counted with its sign
signedAmount(tx) == tx.amount
\* const expenseAmount = Math.abs(tx.amount)
expenseAmount(tx) == Abs(tx.amount)

summarizeTransactions(transactions) ==
    LET income == SelectSeq(transactions, LAMBDA tx: tx.amount > 0)
        expenses == SelectSeq(transactions, LAMBDA tx: ~(tx.amount > 0))
        source(tx) ==
            LET stripped == StripIncomePrefix(IF tx.category = "" THEN "income_other"
                                              ELSE tx.category)
            IN  IF stripped = "" THEN "other" ELSE stripped
    IN  [total_income   |-> roundMoney(SeqSum([i \in 1..Len(income) |-> income[i].amount])),
         income_count   |-> Len(income),
         income_by_source |->
             SumByKey([i \in 1..Len(income) |-> source(income[i])],
                      [i \in 1..Len(income) |-> income[i].amount]),
         total_expenses |-> roundMoney(
                              SeqSum([i \in 1..Len(expenses) |-> expenseAmount(expenses[i])])),
         expense_count  |-> Len(expenses),
         expenses_by_category |->
             SumByKey([i \in 1..Len(expenses) |-> expenses[i].category],
                      [i \in 1..Len(expenses) |-> expenseAmount(expenses[i])]),
         top_merchants  |-> TopMerchants(expenses, TOP_MERCHANTS)]

\* the months of groupTransactionsByMonth (lib/utils/transactions.ts), each
\* with its per-file summary (top 5 merchants, totals not rounded)
groupTransactionsByMonth(transactions) ==
    [month \in {MonthOf(transactions[i].date) : i \in 1..Len(transactions)} |->
        LET ofMonth == SelectSeq(transactions, LAMBDA tx: MonthOf(tx.date) = month)
            income == SelectSeq(ofMonth, LAMBDA tx: tx.amount > 0)
            expenses == SelectSeq(ofMonth, LAMBDA tx: ~(tx.amount > 0))
            source(tx) == IF StripIncomePrefix(tx.category) = "" THEN "other"
                          ELSE StripIncomePrefix(tx.category)
        IN  [total_income   |-> SeqSum([i \in 1..Len(income) |-> income[i].amount]),
             income_count   |-> Len(income),
             income_by_source |->
                 SumByKey([i \in 1..Len(income) |-> source(income[i])],
                          [i \in 1..Len(income) |-> income[i].amount]),
             total_expenses |-> SeqSum([i \in 1..Len(expenses) |-> Abs(expenses[i].amount)]),
             expense_count  |-> Len(expenses),
             expenses_by_category |->
                 SumByKey([i \in 1..Len(expenses) |-> expenses[i].category],
                          [i \in 1..Len(expenses) |-> Abs(expenses[i].amount)]),
             top_merchants  |-> TopMerchants(expenses, TOP_MERCHANTS_PER_FILE)]]

\* ---------------------------------------------------- the model's inputs
DocIds == {"d1", "d2"}
\* concurrent invocations of the POST handler
Runs == {"r1", "r2"}
\* nova_documents.user_id: both documents belong to one user
UserOf(documentId) == "u1"

tPay  == [date |-> 20240105, description |-> <<"P">>, amount |-> 3 * UNIT,
          category |-> "income_salary"]
\* -2.005: a raw amount with a third decimal
tRent == [date |-> 20240120, description |-> <<"R">>, amount |-> -(2 * UNIT + 1),
          category |-> "housing"]
tFood == [date |-> 20240203, description |-> <<"G">>, amount |-> -UNIT,
          category |-> "groceries"]
\* 0.005: below the smallest kept magnitude
tTiny == [date |-> 20240109, description |-> <<"T">>, amount |-> 1,
          category |-> "other"]
\* 5,000,000.01: above the ceiling
tHuge == [date |-> 20240111, description |-> <<"H">>,
          amount |-> DEFAULT_MAX_TRANSACTION_ABS + CENT, category |-> "income_other"]

\* A stored file, given by what the deterministic extractors read in it: pdf
\* (isPdfStatement), hasText (extractPdfTextChunks returns chunks) and rows,
\* the transactions the parser of csv-parser.ts builds from the bytes.
PdfFiles ==
    {[pdf |-> TRUE, hasText |-> TRUE, rows |-> <<tPay, tFood>>],
     [pdf |-> TRUE, hasText |-> TRUE, rows |-> <<>>]}
TabularFiles ==
    {[pdf |-> FALSE, hasText |-> FALSE, rows |-> <<tRent>>],
     [pdf |-> FALSE, hasText |-> FALSE, rows |-> <<tTiny>>]}
Files == PdfFiles \cup TabularFiles

\* What nearAI.extractTransactionsFromPDFChunks can do in one run: throw, or
\* return rows; `failed` says that every completion call of the run failed.
LLMRowLists == {<<tRent>>, <<tHuge>>}
LLMOutcomes ==
    {[threw |-> TRUE, failed |-> TRUE, rows |-> <<>>],
     [threw |-> FALSE, failed |-> TRUE, rows |-> <<>>]}
    \cup {[threw |-> FALSE, failed |-> FALSE, rows |-> rows] : rows \in LLMRowLists}

NoLLM == [threw |-> FALSE, failed |-> FALSE, rows |-> <<>>]
NoParse == [ok |-> FALSE]
\* What the calls analyzeTransactions, generateOptimizationInsights and
\* generateGoals do in one run: answer ("ok"), answer with an empty list
\* ("empty") or throw ("throws")
AllAnswer == [analysis |-> "ok", insights |-> "ok", goals |-> "ok"]
AllThrow  == [analysis |-> "throws", insights |-> "throws", goals |-> "throws"]
AIOutcomes ==
    {AllAnswer,
     [analysis |-> "ok", insights |-> "throws", goals |-> "empty"],
     [analysis |-> "throws", insights |-> "empty", goals |-> "throws"],
     AllThrow}
NoAI == [analysis |-> "none", insights |-> "none", goals |-> "none"]

IdleRun ==
    [pc |-> "idle", doc |-> "", llm |-> NoLLM, extractor |-> "none",
     parse |-> NoParse, pending |-> {}, error |-> "none", ai |-> NoAI,
     response |-> "none"]

PendingDocument ==
    [processing_status |-> "pending", processing_error |-> "none",
     processed_at |-> FALSE, transaction_count |-> 0,
     date_range_start |-> 0, date_range_end |-> 0,
     total_income |-> 0, total_expenses |-> 0]

VARIABLES
    file,                  \* the stored bytes of each document (blob storage)
    nova_documents,        \* table nova_documents, by id
    transaction_summaries, \* table transaction_summaries: a set of rows
    ai_analyses,           \* table ai_analyses: a sequence of inserted rows
    insights,              \* table insights: a sequence of inserted batches
    goals,                 \* table goals: the names of the user's goals
    run,                   \* the local state of each handler invocation
    startsOf,              \* handler runs started so far, per document
    summariesAtStart,      \* transaction_summaries when the run of r1 started
    batch,                 \* the locals of one invocation of runInBatches
    call,                  \* the last call of a parsing function and its result
    requestLog,            \* middleware: the timestamps kept for each IP
    clock,                 \* the last value Date.now() returned
    handled,               \* requests the middleware has answered, per IP
    passed,                \* timestamps of the requests passed on, per IP
    lastResponse,          \* the last answer of the middleware
    request                \* the last request the handler was given

\* middleware (part_000 398-399)
WINDOW_MS == 10000
LIMIT == 30
\* the clients of the API, and the moments Date.now() returns: the start,
\* the last millisecond of the window that starts there and the first after it
IPs == {"10.0.0.1", "10.0.0.2"}
Times == {0, WINDOW_MS - 1, WINDOW_MS}

handlerVars == <<file, nova_documents, transaction_summaries, ai_analyses,
                 insights, goals, run, startsOf, summariesAtStart, request>>
limiterVars == <<requestLog, clock, handled, passed, lastResponse>>
vars == <<file, nova_documents, transaction_summaries, ai_analyses, insights,
          goals, run, startsOf, summariesAtStart, batch, call,
          requestLog, clock, handled, passed, lastResponse, request>>

\* The functions of the library share no state: each call is followed on
\* its own, from the state where none has been made.
NothingCalled == batch.pc = "idle" /\ call.fn = "none"

Init ==
    /\ file \in {f \in [DocIds -> Files] : f["d1"] \in PdfFiles /\ f["d2"] \in TabularFiles}
    /\ nova_documents = [d \in DocIds |-> PendingDocument]
    /\ transaction_summaries = {}
    /\ ai_analyses = <<>>
    /\ insights = <<>>
    /\ goals = {}
    /\ run = [r \in Runs |-> IdleRun]
    /\ startsOf = [d \in DocIds |-> 0]
    /\ summariesAtStart = {}
    /\ batch = [pc |-> "idle", concurrency |-> 0, items |-> <<>>, size |-> 0,
                index |-> 0,
                runs |-> <<>>, settled |-> <<>>, output |-> <<>>, errors |-> <<>>]
    /\ call = [fn |-> "none"]
    /\ requestLog = [ip \in IPs |-> <<>>]
    /\ clock = 0
    /\ handled = [ip \in IPs |-> 0]
    /\ passed = [ip \in IPs |-> <<>>]
    /\ lastResponse = [status |-> 0]
    /\ request = [doc |-> "", forceReprocess |-> FALSE,
                  configuredSecret |-> [defined |-> FALSE],
                  internalSecret |-> [defined |-> FALSE], user |-> "none"]

\* ------------------------------------------- the table transaction_summaries
\* an insert that ignores the rows present
insert(table, mergedRow) ==
    table \cup {[mergedRow EXCEPT !.id = Cardinality(table) + 1]}
\* upsert(mergedRow, {onConflict: 'user_id,summary_month'}): the row with the
\* key of mergedRow takes its columns and keeps its id; without one a row is
\* inserted under a fresh id
upsert(table, mergedRow) ==
    LET conflict == {row \in table : /\ row.user_id = mergedRow.user_id
                                     /\ row.summary_month = mergedRow.summary_month}
    IN  IF conflict # {}
        THEN (table \ conflict)
             \cup {[mergedRow EXCEPT !.id = row.id] : row \in conflict}
        ELSE table \cup {[mergedRow EXCEPT !.id = Cardinality(table) + 1]}

\* a merge that reads no existing row
ExistingTransactionsOfNone(table, userId, month) == <<>>
\* existingSummariesByMonth.get(month)?.all_transactions of the rows selected
\* for the user; undefined is read as the empty list by the merge
ExistingTransactions(table, userId, month) ==
    LET rows == {row \in table : row.user_id = userId /\ row.summary_month = month}
    IN  IF rows = {} THEN <<>> ELSE (CHOOSE row \in rows : TRUE).all_transactions

\* monthRowsToUpsert of POST (route.ts 582-636), computed from the rows read
monthRowsToUpsert(table, documentId, transactions) ==
    LET monthlySummaries == groupTransactionsByMonth(transactions)
        transactionsByMonth == buildTransactionsByMonth(transactions, documentId)
        mergedRow(month) ==
            LET mergedTransactions ==
                    mergeAllTransactions(
                        ExistingTransactions(table, UserOf(documentId), month),
                        transactionsByMonth[month], documentId)
                recalculatedSummary == summarizeTransactions(mergedTransactions)
            IN  [id             |-> 0,
                 user_id        |-> UserOf(documentId),
                 document_id    |-> documentId,
                 summary_month  |-> month,
                 total_income   |-> clampNumeric12(recalculatedSummary.total_income),
                 income_count   |-> recalculatedSummary.income_count,
                 income_by_source |-> recalculatedSummary.income_by_source,
                 total_expenses |-> clampNumeric12(recalculatedSummary.total_expenses),
                 expense_count  |-> recalculatedSummary.expense_count,
                 expenses_by_category |-> recalculatedSummary.expenses_by_category,
                 top_merchants  |-> recalculatedSummary.top_merchants,
                 all_transactions |-> mergedTransactions]
    IN  {mergedRow(month) : month \in DOMAIN monthlySummaries}

\* ------------------------------------------------------------ goals
FallbackGoalNames ==
    <<"Build 3-month emergency fund", "Pay down high-interest debt",
      "Increase monthly savings rate", "Build long-term investment base",
      "Grow primary income capacity", "Increase retirement contributions">>
\* the goals a successful generateGoals call returns in the model
ModelGoalNames == <<"Save for a home", "Build 3-Month Emergency Fund">>
MAX_NEW_GOALS == 6

\* name.trim().toLowerCase().replace(/\s+/g, ' ') on the names of the model
normalizeGoalName(name) ==
    CASE name \in {"Build 3-month emergency fund", "Build 3-Month Emergency Fund"}
              -> "build 3-month emergency fund"
      [] name = "Pay down high-interest debt"       -> "pay down high-interest debt"
      [] name = "Increase monthly savings rate"     -> "increase monthly savings rate"
      [] name = "Build long-term investment base"   -> "build long-term investment base"
      [] name = "Grow primary income capacity"      -> "grow primary income capacity"
      [] name = "Increase retirement contributions" -> "increase retirement contributions"
      [] name = "Save for a home"                   -> "save for a home"
      [] OTHER -> name

\* the loop over goalCandidates (route.ts 808-859)
RECURSIVE SelectGoals(_, _, _)
SelectGoals(candidates, seenGoalNames, goalsToInsert) ==
    IF candidates = <<>> \/ Len(goalsToInsert) >= MAX_NEW_GOALS THEN goalsToInsert
    ELSE LET name == Head(candidates)
             normalizedName == normalizeGoalName(name)
         IN  IF normalizedName \in seenGoalNames
             THEN SelectGoals(Tail(candidates), seenGoalNames, goalsToInsert)
             ELSE SelectGoals(Tail(candidates), seenGoalNames \cup {normalizedName},
                              Append(goalsToInsert, name))

\* goalsResult.goals by the result of the goals stage
GoalsOf(stage) ==
    CASE stage = "fallback" -> FallbackGoalNames
      [] stage = "ok"       -> ModelGoalNames
      [] OTHER              -> <<>>

\* a stage without its catch clause
StageUncaught(callOutcome) == callOutcome
\* try { result = await nearAI.call(...) } catch { result = fallback } of
\* route.ts 702-750: the result a stage works with, by what its call did
StageResult(callOutcome) ==
    IF callOutcome = "throws" THEN "fallback" ELSE callOutcome

\* --------------------------------------------------------- the handler POST
\* The handler is cut where it reads or writes transaction_summaries; the
\* statements between two such points are one action.  A handler that has
\* answered keeps no local state but its response.
TotalStarts == startsOf["d1"] + startsOf["d2"]

\* a short circuit for documents of more than one transaction only
ShortCircuitMany(d, forceReprocess) ==
    /\ ~forceReprocess
    /\ nova_documents[d].processing_status = "completed"
    /\ nova_documents[d].processed_at
    /\ nova_documents[d].transaction_count > 1
\* route.ts 480-485
ShortCircuit(d, forceReprocess) ==
    /\ ~forceReprocess
    /\ nova_documents[d].processing_status = "completed"
    /\ nova_documents[d].processed_at
    /\ nova_documents[d].transaction_count > 0

Free(r) == run[r].pc \in {"idle", "returned"} /\ run[r].pending = {}
\* Invocations are anonymous: a request is given to r1 unless r1 is busy.
Assignable(r) == Free(r) /\ (r = "r1" \/ ~Free("r1"))

\* a throw inside the try block: control moves to the catch clause
Throw(r, error) == run' = [run EXCEPT ![r].pc = "catch", ![r].error = error]

\* the handler has answered: its locals are gone, upserts still in flight
\* stay in flight
Answered(thisRun, response) ==
    [IdleRun EXCEPT !.pc = "returned", !.doc = thisRun.doc,
                    !.pending = thisRun.pending, !.response = response]

\* route.ts 480-493: the document was processed before and force is not set
AlreadyProcessed(r, d) ==
    /\ Assignable(r)
    /\ ShortCircuit(d, FALSE)
    /\ run' = [run EXCEPT ![r] = Answered([IdleRun EXCEPT !.doc = d],
                                          "alreadyProcessed")]
    /\ UNCHANGED <<file, nova_documents, transaction_summaries, ai_analyses,
                   insights, goals, startsOf, summariesAtStart>>

\* the totals and the range of the list in the order given
finalizeUnsorted(rawTransactions) ==
    IF rawTransactions = <<>>
    THEN [ok |-> FALSE, error |-> "No valid transaction rows were found"]
    ELSE [ok |-> TRUE,
          transactions |-> rawTransactions,
          totalIncome |-> SeqSum([i \in 1..Len(rawTransactions) |->
                              Max(rawTransactions[i].amount, 0)]),
          totalExpenses |-> SeqSum([i \in 1..Len(rawTransactions) |->
                                Max(-rawTransactions[i].amount, 0)]),
          dateRange |-> [start |-> rawTransactions[1].date,
                         end |-> rawTransactions[Len(rawTransactions)].date]]
\* csv-parser.ts 267-294: throws on an empty list; the transactions sorted by
\* date, the sums of the positive amounts and of the magnitudes of the
\* others, the first and the last date
finalizeResult(rawTransactions) ==
    IF rawTransactions = <<>>
    THEN [ok |-> FALSE, error |-> "No valid transaction rows were found"]
    ELSE LET sortedByDate == SortByDate(rawTransactions)
         IN  [ok |-> TRUE,
              transactions |-> sortedByDate,
              totalIncome |-> SeqSum([i \in 1..Len(rawTransactions) |->
                                  Max(rawTransactions[i].amount, 0)]),
              totalExpenses |-> SeqSum([i \in 1..Len(rawTransactions) |->
                                    Max(-rawTransactions[i].amount, 0)]),
              dateRange |-> [start |-> sortedByDate[1].date,
                             end |-> sortedByDate[Len(sortedByDate)].date]]

\* parseBankStatement (csv-parser.ts 813-841) on the rows read in the file:
\* an empty list throws (821, 829, and 268 for a CSV), else finalizeResult
parseBankStatement(f) ==
    IF f.rows = <<>> THEN NoParse
    ELSE finalizeResult(f.rows)

\* llmTransactions of route.ts 548-553
llmTransactionsOf(rows) ==
    [i \in 1..Len(rows) |->
        [date        |-> rows[i].date,
         description |-> rows[i].description,
         amount      |-> rows[i].amount,
         category    |-> IF rows[i].category # "" THEN rows[i].category
                         ELSE IF rows[i].amount > 0 THEN "income_other" ELSE "other"]]

\* parseBankStatement followed by buildParseResultFromTransactions
DeterministicParse(f) ==
    LET parsed == parseBankStatement(f)
    IN  IF parsed.ok THEN buildParseResultFromTransactions(parsed.transactions)
        ELSE NoParse

\* the rows of the completion service taken whatever their number
UseLLMAlways(llmTransactions) == TRUE
\* route.ts 558: llmTransactions.length > 0
UseLLM(llmTransactions) == Len(llmTransactions) > 0

\* route.ts 526-576, a PDF: the rows of the completion service when it
\* returned some, else the rows of the parser
ParsePdf(thisRun, f, outcome) ==
    LET llmTransactions == IF outcome.threw THEN <<>>
                           ELSE llmTransactionsOf(outcome.rows)
        parseResult == IF UseLLM(llmTransactions)
                       THEN buildParseResultFromTransactions(llmTransactions)
                       ELSE DeterministicParse(f)
    IN  [thisRun EXCEPT
            !.llm = outcome,
            !.extractor = IF UseLLM(llmTransactions) THEN "llm" ELSE "heuristic",
            !.parse = parseResult,
            !.pc = IF parseResult.ok THEN "merge" ELSE "catch",
            !.error = IF parseResult.ok THEN "none" ELSE "no_valid"]

\* route.ts 577-580, any other file: the parser alone
ParseTabular(thisRun, f) ==
    LET parseResult == DeterministicParse(f)
    IN  [thisRun EXCEPT
            !.extractor = "parser",
            !.parse = parseResult,
            !.pc = IF parseResult.ok THEN "merge" ELSE "catch",
            !.error = IF parseResult.ok THEN "none" ELSE "no_valid"]

\* the local state of the handler after route.ts 500-580: `setup` is
\* "storage" when the download throws and "config" when the constructor of
\* NEARAIService throws; `outcome` is what the completion service does
Parsed(d, setup, outcome) ==
    LET thisRun == [IdleRun EXCEPT !.doc = d]
    IN  IF setup # "ok" THEN [thisRun EXCEPT !.pc = "catch", !.error = setup]
        ELSE IF ~file[d].pdf THEN ParseTabular(thisRun, file[d])
        ELSE IF ~file[d].hasText
             THEN [thisRun EXCEPT !.pc = "catch", !.error = "no_text"]
        ELSE ParsePdf(thisRun, file[d], outcome)

\* route.ts 459-580: load the document, mark it processing, download the
\* blob and parse the file
Begin(r, d, forceReprocess, setup, outcome) ==
    /\ Assignable(r)
    /\ TotalStarts < MaxStarts
    /\ ~ShortCircuit(d, forceReprocess)
    /\ nova_documents' = [nova_documents EXCEPT
                            ![d].processing_status = "processing",
                            ![d].processing_error = "none"]
    /\ run' = [run EXCEPT ![r] = Parsed(d, setup, outcome)]
    /\ startsOf' = [startsOf EXCEPT ![d] = @ + 1]
    /\ summariesAtStart' = IF r = "r1" THEN transaction_summaries
                           ELSE summariesAtStart
    /\ UNCHANGED <<file, transaction_summaries, ai_analyses, insights, goals>>

\* route.ts 582-636: record the date range, read the existing rows of the
\* months of the parse result and build the merged rows
ReadExisting(r, existingMonthError) ==
    /\ run[r].pc = "merge"
    /\ nova_documents' = [nova_documents EXCEPT
          ![run[r].doc].date_range_start = run[r].parse.dateRange.start,
          ![run[r].doc].date_range_end = run[r].parse.dateRange.end]
    /\ IF existingMonthError THEN Throw(r, "db")
       ELSE run' = [run EXCEPT
                      ![r].pending = monthRowsToUpsert(transaction_summaries,
                                        run[r].doc, run[r].parse.transactions),
                      ![r].pc = "upsert"]
    /\ UNCHANGED <<file, transaction_summaries, ai_analyses, insights, goals,
                   startsOf, summariesAtStart>>

\* route.ts 638-649: one of the upserts dispatched by Promise.all lands
Upsert(r, mergedRow) ==
    /\ mergedRow \in run[r].pending
    /\ transaction_summaries' = upsert(transaction_summaries, mergedRow)
    /\ run' = [run EXCEPT
                 ![r].pending = @ \ {mergedRow},
                 ![r].pc = IF @ = "upsert" /\ run[r].pending = {mergedRow}
                           THEN "analyze" ELSE @]
    /\ UNCHANGED <<file, nova_documents, ai_analyses, insights, goals, startsOf,
                   summariesAtStart>>

\* one of the upserts returns an error: Promise.all rejects and control moves
\* to the catch clause, the other upserts stay in flight
UpsertFails(r, mergedRow) ==
    /\ mergedRow \in run[r].pending
    /\ run' = [run EXCEPT
                 ![r].pending = @ \ {mergedRow},
                 ![r].pc = IF @ = "upsert" THEN "catch" ELSE @,
                 ![r].error = IF run[r].pc = "upsert" THEN "db" ELSE @]
    /\ UNCHANGED <<file, nova_documents, transaction_summaries, ai_analyses,
                   insights, goals, startsOf, summariesAtStart>>

\* route.ts 651-872: read the user's rows, run the three completion stages
\* (each replaced by its fallback generator when the call throws), insert the
\* analysis, the insights and the new goals.  aiResult is what the three
\* calls do, failedAt names the first database statement that returns an
\* error.  A stage result "throws" is an exception no handler caught.
Finish(r, aiResult, failedAt) ==
    /\ run[r].pc = "analyze"
    /\ LET d == run[r].doc
           userId == UserOf(d)
           stage == [s \in {"analysis", "insights", "goals"} |->
                       StageResult(aiResult[s])]
           uncaught == failedAt # "read" /\ \E s \in DOMAIN stage : stage[s] = "throws"
           analysisRow == [user_id |-> userId]
           insightsToInsert ==
               IF stage.insights = "empty" THEN <<>>
               ELSE <<[user_id |-> userId, analysis_id |-> Len(ai_analyses) + 1]>>
           existingGoals == {goal \in goals : goal.user_id = userId}
           goalCandidates == GoalsOf(stage.goals) \o FallbackGoalNames
           goalsToInsert ==
               SelectGoals(goalCandidates,
                           {normalizeGoalName(goal.name) : goal \in existingGoals}, <<>>)
           goalRows == {[user_id |-> userId, name |-> goalsToInsert[i]] :
                          i \in 1..Len(goalsToInsert)}
       IN  /\ failedAt = "insights" => insightsToInsert # <<>>
           /\ failedAt = "goals_insert" => goalsToInsert # <<>>
           /\ ai_analyses' = IF uncaught \/ failedAt \in {"read", "analysis"}
                             THEN ai_analyses
                             ELSE Append(ai_analyses, analysisRow)
           /\ insights' = IF uncaught \/ failedAt \in {"read", "analysis", "insights"}
                          THEN insights
                          ELSE insights \o insightsToInsert
           /\ goals' = IF ~uncaught /\ failedAt = "none" THEN goals \cup goalRows
                       ELSE goals
           /\ run' = [run EXCEPT
                        ![r].ai = IF failedAt = "read" THEN NoAI ELSE aiResult,
                        ![r].pc = IF ~uncaught /\ failedAt = "none"
                                  THEN "complete" ELSE "catch",
                        ![r].error = IF uncaught THEN "completion"
                                     ELSE IF failedAt = "none" THEN "none" ELSE "db"]
    /\ UNCHANGED <<file, nova_documents, transaction_summaries, startsOf,
                   summariesAtStart>>

\* route.ts 874-892: mark the document completed and answer.  The update
\* resolves to { data, error }; the handler reads neither, so an update the
\* database refuses (updateError) changes nothing and the answer is the same.
Complete(r, updateError) ==
    /\ run[r].pc = "complete"
    /\ nova_documents' =
          IF updateError THEN nova_documents
          ELSE [nova_documents EXCEPT ![run[r].doc] =
                  [@ EXCEPT !.processing_status = "completed",
                            !.processed_at = TRUE,
                            !.transaction_count = Len(run[r].parse.transactions),
                            !.date_range_start = run[r].parse.dateRange.start,
                            !.date_range_end = run[r].parse.dateRange.end,
                            !.total_income = clampNumeric12(run[r].parse.totalIncome),
                            !.total_expenses = clampNumeric12(run[r].parse.totalExpenses)]]
    /\ run' = [run EXCEPT ![r] = Answered(run[r], "success")]
    /\ UNCHANGED <<file, transaction_summaries, ai_analyses, insights, goals,
                   startsOf, summariesAtStart>>

\* route.ts 893-905, the catch clause: mark the document failed, answer 500;
\* the result of the update is not read here either
Catch(r, updateError) ==
    /\ run[r].pc = "catch"
    /\ nova_documents' =
          IF updateError THEN nova_documents
          ELSE [nova_documents EXCEPT
                  ![run[r].doc].processing_status = "failed",
                  ![run[r].doc].processing_error = run[r].error]
    /\ run' = [run EXCEPT ![r] = Answered(run[r], "error")]
    /\ UNCHANGED <<file, transaction_summaries, ai_analyses, insights, goals,
                   startsOf, summariesAtStart>>

\* what can go wrong before the file is parsed, and in the database
\* statements of the last part of the handler
Setups == {"ok", "storage", "config"}
FailurePoints == {"none", "read", "analysis", "insights", "goals_select", "goals_insert"}

\* one step of the handler invocation r, its faults drawn from the given sets
Step(r, setups, aiOutcomes, failurePoints, updateErrors) ==
    \/ \E d \in DocIds : AlreadyProcessed(r, d)
    \/ \E d \in DocIds, forceReprocess \in BOOLEAN, setup \in setups :
          \E outcome \in IF setup = "ok" /\ file[d].pdf /\ file[d].hasText
                         THEN LLMOutcomes ELSE {NoLLM} :
             Begin(r, d, forceReprocess, setup, outcome)
    \/ \E existingMonthError \in BOOLEAN : ReadExisting(r, existingMonthError)
    \/ \E mergedRow \in run[r].pending : Upsert(r, mergedRow)
    \/ \E mergedRow \in run[r].pending : UpsertFails(r, mergedRow)
    \/ \E aiResult \in aiOutcomes, failedAt \in failurePoints :
          Finish(r, aiResult, failedAt)
    \/ \E updateError \in updateErrors : Complete(r, updateError)
    \/ \E updateError \in updateErrors : Catch(r, updateError)

\* one request at a time, every fault: the handler r1 alone
SeqNext ==
    /\ Step("r1", Setups, AIOutcomes, FailurePoints, BOOLEAN)
    /\ UNCHANGED <<batch, call>>
    /\ UNCHANGED <<limiterVars, request>>
SpecSeq == Init /\ [][SeqNext]_vars

\* requests handled concurrently (upload/route.ts 7-19 fires the request of
\* each upload without awaiting it); storage and configuration are sound and
\* of the last database statements only the insert of the analysis may fail
Next ==
    /\ \E r \in Runs :
          Step(r, {"ok"}, {AllAnswer, AllThrow}, {"none", "analysis"}, {FALSE})
    /\ UNCHANGED <<batch, call>>
    /\ UNCHANGED <<limiterVars, request>>
Spec == Init /\ [][Next]_vars

\* ======================================== runInBatches (client.ts 390-418)
\* An item is its value and what its runner does: resolve with the value or
\* reject.  Positions are those of TLA+ (from 1); the index given to the
\* runner and recorded in errors is that of the source (from 0).

\* settled.forEach stopped at the first rejection
recordUntilRejected(output, errors, settled, index) ==
    LET rejected == {k \in 1..Len(settled) : settled[k].status = "rejected"}
        last == IF rejected = {} THEN Len(settled)
                ELSE CHOOSE k \in rejected : \A j \in rejected : k <= j
        seen == SubSeq(settled, 1, last)
        fulfilled == SelectSeq(seen, LAMBDA result: result.status = "fulfilled")
    IN  [output |-> output \o [k \in 1..Len(fulfilled) |-> fulfilled[k].value],
         errors |-> errors \o (IF rejected = {} THEN <<>>
                               ELSE <<[index |-> index + last - 1]>>)]
\* settled.forEach of client.ts 405-411: the fulfilled values appended to
\* output and the absolute indexes of the rejections to errors, by offset
recordSettled(output, errors, settled, index) ==
    LET offsets == [k \in 1..Len(settled) |->
                      [status |-> settled[k].status, value |-> settled[k].value,
                       index |-> index + k - 1]]
        fulfilled == SelectSeq(offsets, LAMBDA result: result.status = "fulfilled")
        rejected == SelectSeq(offsets, LAMBDA result: result.status = "rejected")
    IN  [output |-> output \o [k \in 1..Len(fulfilled) |-> fulfilled[k].value],
         errors |-> errors \o [k \in 1..Len(rejected) |-> [index |-> rejected[k].index]]]

\* client.ts 399-403: the loop test, the slice and the call of the runner on
\* every item of the batch
DispatchBatch ==
    /\ batch.pc = "loop"
    /\ batch.index < Len(batch.items)
    /\ LET last == Min(batch.index + batch.size, Len(batch.items))
       IN  batch' = [batch EXCEPT
                       !.pc = "awaiting",
                       !.runs = [k \in 1..Len(batch.items) |->
                                   IF k > batch.index /\ k <= last
                                   THEN batch.runs[k] + 1 ELSE batch.runs[k]],
                       !.settled = [k \in 1..(last - batch.index) |->
                                      [status |-> "pending", value |-> ""]]]
    /\ UNCHANGED <<limiterVars, handlerVars, call>>

\* the promise of one runner of the batch settles, in any order
SettleRunner(offset) ==
    /\ batch.pc = "awaiting"
    /\ offset \in 1..Len(batch.settled)
    /\ batch.settled[offset].status = "pending"
    /\ LET item == batch.items[batch.index + offset]
       IN  batch' = [batch EXCEPT !.settled[offset] =
                        IF item.succeeds
                        THEN [status |-> "fulfilled", value |-> item.value]
                        ELSE [status |-> "rejected", value |-> ""]]
    /\ UNCHANGED <<limiterVars, handlerVars, call>>

\* client.ts 401-411: Promise.allSettled resolves once every promise of the
\* batch has settled; the results are recorded and the loop goes on
CollectBatch ==
    /\ batch.pc = "awaiting"
    /\ \A k \in 1..Len(batch.settled) : batch.settled[k].status # "pending"
    /\ LET recorded == recordSettled(batch.output, batch.errors, batch.settled,
                                     batch.index)
       IN  batch' = [batch EXCEPT
                       !.pc = "loop",
                       !.output = recorded.output,
                       !.errors = recorded.errors,
                       !.settled = <<>>,
                       !.index = batch.index + batch.size]
    /\ UNCHANGED <<limiterVars, handlerVars, call>>

\* client.ts 399, 414-417: the loop ends and the two lists are returned
ReturnBatches ==
    /\ batch.pc = "loop"
    /\ ~(batch.index < Len(batch.items))
    /\ batch' = [batch EXCEPT !.pc = "returned"]
    /\ UNCHANGED <<limiterVars, handlerVars, call>>

\* ============================================ csv-parser.ts: PDF strategies
\* Text is a sequence of one-character strings.
UpperCase ==
    <<"A", "B", "C", "D", "E", "F", "G", "H", "I", "J", "K", "L", "M",
      "N", "O", "P", "Q", "R", "S", "T", "U", "V", "W", "X", "Y",
      "Z">>
LowerCase ==
    <<"a", "b", "c", "d", "e", "f", "g", "h", "i", "j", "k", "l", "m",
      "n", "o", "p", "q", "r", "s", "t", "u", "v", "w", "x", "y",
      "z">>
\* String.prototype.toLowerCase, character by character
toLowerCase(s) ==
    [i \in 1..Len(s) |->
        IF \E k \in 1..Len(UpperCase) : UpperCase[k] = s[i]
        THEN LowerCase[CHOOSE k \in 1..Len(UpperCase) : UpperCase[k] = s[i]]
        ELSE s[i]]

\* csv-parser.ts 512-514; the "|"-joined text is given by its four fields
\* (the category is a member of the lower-case enum of classifyCategory)
buildPdfTransactionKey(tx) ==
    <<tx.date, toLowerCase(tx.description), toFixed2(tx.amount), tx.category>>

\* A Map is the sequence of its entries in insertion order.
\* map.get(key): the position of the entry, 0 when there is none
IndexOfKey(map, key) ==
    IF \E i \in 1..Len(map) : map[i].key = key
    THEN CHOOSE i \in 1..Len(map) : map[i].key = key
    ELSE 0

\* csv-parser.ts 516-530
RECURSIVE buildTransactionCountMap(_)
buildTransactionCountMap(transactions) ==
    IF transactions = <<>> THEN <<>>
    ELSE LET countMap == buildTransactionCountMap(
                             SubSeq(transactions, 1, Len(transactions) - 1))
             tx == transactions[Len(transactions)]
             key == buildPdfTransactionKey(tx)
         IN  IF IndexOfKey(countMap, key) = 0
             THEN Append(countMap, [key |-> key, tx |-> tx, count |-> 1])
             ELSE [countMap EXCEPT ![IndexOfKey(countMap, key)].count = @ + 1]

\* an entry merged by adding the counts of the strategies
mergeEntrySum(merged, value) ==
    IF IndexOfKey(merged, value.key) = 0
    THEN Append(merged, [key |-> value.key, tx |-> value.tx, maxCount |-> value.count])
    ELSE [merged EXCEPT ![IndexOfKey(merged, value.key)].maxCount = @ + value.count]
\* csv-parser.ts 538-541: one entry of a strategy's count map merged
mergeEntry(merged, value) ==
    IF IndexOfKey(merged, value.key) = 0
    THEN Append(merged, [key |-> value.key, tx |-> value.tx, maxCount |-> value.count])
    ELSE LET i == IndexOfKey(merged, value.key)
         IN  IF value.count > merged[i].maxCount
             THEN [merged EXCEPT ![i] = [key |-> value.key, tx |-> value.tx,
                                         maxCount |-> value.count]]
             ELSE merged

\* csv-parser.ts 537-542: the entries of one count map, in insertion order
RECURSIVE mergeCountMap(_, _)
mergeCountMap(merged, countMap) ==
    IF countMap = <<>> THEN merged
    ELSE mergeCountMap(mergeEntry(merged, Head(countMap)), Tail(countMap))

\* csv-parser.ts 535-543: the strategies in the order given
RECURSIVE mergeStrategyCounts(_, _)
mergeStrategyCounts(merged, strategies) ==
    IF strategies = <<>> THEN merged
    ELSE mergeStrategyCounts(
             mergeCountMap(merged, buildTransactionCountMap(Head(strategies))),
             Tail(strategies))

\* csv-parser.ts 545-550: every kept transaction pushed maxCount times
RECURSIVE expandCounts(_)
expandCounts(merged) ==
    IF merged = <<>> THEN <<>>
    ELSE [k \in 1..Head(merged).maxCount |-> Head(merged).tx]
             \o expandCounts(Tail(merged))

\* csv-parser.ts 532-553
mergePdfStrategies(strategies) ==
    expandCounts(mergeStrategyCounts(<<>>, strategies))

\* Transactions the three PDF strategies can read off one statement: two
\* lines that differ in the case of the description only, and another line.
tUber == [date |-> 20240105, description |-> <<"U", "b", "e", "r">>,
          amount |-> -UNIT, category |-> "transportation"]
tUBER == [date |-> 20240105, description |-> <<"U", "B", "E", "R">>,
          amount |-> -UNIT, category |-> "transportation"]
tCafe == [date |-> 20240106, description |-> <<"C", "a", "f", "e">>,
          amount |-> -(2 * UNIT), category |-> "dining"]
PdfTransactions == {tUber, tUBER, tCafe}
\* what one strategy returns: at most n transactions
StrategyLists(n) == UNION {[1..k -> PdfTransactions] : k \in 0..n}
\* parsePdfTransactions (csv-parser.ts 746-777, the call at 767-771) merges what its strategies read
CallMergePdfStrategies ==
    /\ NothingCalled
    /\ \E tableTransactions \in StrategyLists(MaxPdfRows) :
       \E lineTransactions \in StrategyLists(MaxPdfRows - Len(tableTransactions)) :
       \E blockTransactions \in StrategyLists(
               MaxPdfRows - Len(tableTransactions) - Len(lineTransactions)) :
          LET strategies ==
                  <<tableTransactions, lineTransactions, blockTransactions>>
          IN  call' = [fn |-> "mergePdfStrategies", strategies |-> strategies,
                       result |-> mergePdfStrategies(strategies)]
    /\ UNCHANGED <<limiterVars, handlerVars, batch>>

\* ================================================ csv-parser.ts: parseAmount
Digits == <<"0", "1", "2", "3", "4", "5", "6", "7", "8", "9">>
isDigit(c) == \E k \in 1..Len(Digits) : Digits[k] = c
DigitValue(c) == (CHOOSE k \in 1..Len(Digits) : Digits[k] = c) - 1
\* \w of a regular expression
isWordChar(c) ==
    \/ isDigit(c)
    \/ c = "_"
    \/ \E k \in 1..Len(UpperCase) : c = UpperCase[k] \/ c = LowerCase[k]
\* \b between the characters i and i + 1 of s (0 is the start, Len(s) the end)
isWordBoundary(s, i) ==
    (i >= 1 /\ isWordChar(s[i])) # (i + 1 <= Len(s) /\ isWordChar(s[i + 1]))
\* /\bword\b/i matches at position i of s
TokenAt(s, i, word) ==
    /\ i >= 1
    /\ i + Len(word) - 1 <= Len(s)
    /\ toLowerCase(SubSeq(s, i, i + Len(word) - 1)) = word
    /\ isWordBoundary(s, i - 1)
    /\ isWordBoundary(s, i + Len(word) - 1)
\* /\bword\b/i.test(s)
testToken(s, word) == \E i \in 1..Len(s) : TokenAt(s, i, word)

\* s.replace(/\b(cr|dr)\b/gi, '') from position i on: the matches are found
\* from left to right in s itself
RECURSIVE removeCrDr(_, _)
removeCrDr(s, i) ==
    IF i > Len(s) THEN <<>>
    ELSE IF TokenAt(s, i, <<"c", "r">>) \/ TokenAt(s, i, <<"d", "r">>)
         THEN removeCrDr(s, i + 2)
         ELSE <<s[i]>> \o removeCrDr(s, i + 1)

RECURSIVE DigitsValue(_)
DigitsValue(s) ==
    IF s = <<>> THEN 0
    ELSE DigitsValue(SubSeq(s, 1, Len(s) - 1)) * 10 + DigitValue(s[Len(s)])
\* the decimals of a numeral in half-cents (a third decimal of 5 is a
\* half-cent; the texts of the model carry nothing finer)
FractionValue(s) ==
    (IF Len(s) >= 1 THEN DigitValue(s[1]) * 10 * CENT ELSE 0)
    + (IF Len(s) >= 2 THEN DigitValue(s[2]) * CENT ELSE 0)
    + (IF Len(s) >= 3 /\ DigitValue(s[3]) >= 5 THEN 1 ELSE 0)
\* Number(text): the empty text is 0, a decimal numeral with an optional sign
\* is its value, any other text of the model's characters is NaN (no text of
\* the model spells an exponent, a radix prefix or Infinity)
NumberOf(text) ==
    LET t == Trim(text)
        signed == t # <<>> /\ Head(t) \in {"-", "+"}
        body == IF signed THEN Tail(t) ELSE t
        dots == {i \in 1..Len(body) : body[i] = "."}
        dot == IF dots = {} THEN Len(body) + 1 ELSE CHOOSE i \in dots : TRUE
        whole == SubSeq(body, 1, dot - 1)
        fraction == SubSeq(body, dot + 1, Len(body))
        numeral == /\ Cardinality(dots) <= 1
                   /\ \A i \in 1..Len(body) : isDigit(body[i]) \/ body[i] = "."
                   /\ Len(whole) + Len(fraction) >= 1
        magnitude == DigitsValue(whole) * UNIT + FractionValue(fraction)
    IN  IF t = <<>> THEN [nan |-> FALSE, value |-> 0]
        ELSE IF ~numeral THEN [nan |-> TRUE, value |-> 0]
        ELSE [nan |-> FALSE,
              value |-> IF signed /\ Head(t) = "-" THEN -magnitude ELSE magnitude]

\* csv-parser.ts 109-136 for a text cell (a cell that is a number is returned
\* as it is, 110-115)
parseAmount(value) ==
    LET raw == Trim(value)
        isCr == testToken(raw, <<"c", "r">>)
        isDr == testToken(raw, <<"d", "r">>)
        isNegative == \/ \E i \in 1..Len(raw) : raw[i] = "("
                      \/ Head(raw) = "-"
                      \/ raw[Len(raw)] = "-"
                      \/ isDr
        cleaned == removeCrDr(
                       SelectSeq(SelectSeq(raw, LAMBDA c : c \notin {"$", ",", " "}),
                                 LAMBDA c : c \notin {"(", ")"}),
                       1)
        signed(numeric) ==
            IF numeric.nan THEN [ok |-> FALSE, error |-> "Invalid amount"]
            ELSE IF isNegative THEN [ok |-> TRUE, value |-> -Abs(numeric.value)]
            ELSE IF isCr THEN [ok |-> TRUE, value |-> Abs(numeric.value)]
            ELSE [ok |-> TRUE, value |-> numeric.value]
    IN  IF raw = <<>> THEN [ok |-> FALSE, error |-> "Invalid amount"]
        ELSE signed(NumberOf(cleaned))

\* Amount cells of a statement: a prefix (none, -, (, ($), a numeral (500.00,
\* 1,250.00, 500.) and a suffix (none, ), -, " CR", " DR", ") CR", ")CR",
\* " cr").
AmountTexts ==
    {prefix \o numeral \o suffix :
        prefix \in {<<>>, <<"-">>, <<"(">>, <<"(", "$">>},
        numeral \in {<<"5", "0", "0", ".", "0", "0">>,
                     <<"1", ",", "2", "5", "0", ".", "0", "0">>,
                     <<"5", "0", "0", ".">>},
        suffix \in {<<>>, <<")">>, <<"-">>, <<" ", "C", "R">>, <<" ", "D", "R">>,
                    <<")", " ", "C", "R">>, <<")", "C", "R">>, <<" ", "c", "r">>}}

CallParseAmount ==
    /\ NothingCalled
    /\ \E value \in AmountTexts :
          call' = [fn |-> "parseAmount", value |-> value,
                   result |-> parseAmount(value)]
    /\ UNCHANGED <<limiterVars, handlerVars, batch>>

\* =========================================== csv-parser.ts: classifyCategory
\* String.prototype.includes
includes(text, word) ==
    \E i \in 1..(Len(text) - Len(word) + 1) :
        SubSeq(text, i, i + Len(word) - 1) = word

\* csv-parser.ts 142-150: the income tests in the order of the code
IncomeRules ==
    <<[category |-> "income_salary",
           keywords |->
             <<<<"p", "a", "y", "r", "o", "l", "l">>,
               <<"s", "a", "l", "a", "r", "y">>,
               <<"w", "a", "g", "e">>>>],
          [category |-> "income_investment",
           keywords |->
             <<<<"i", "n", "t", "e", "r", "e", "s", "t">>,
               <<"d", "i", "v", "i", "d", "e", "n", "d">>>>]>>
\* csv-parser.ts 153-183: the expense tests in the order of the code
ExpenseRules ==
    <<[category |-> "transportation",
           keywords |->
             <<<<"u", "b", "e", "r">>,
               <<"l", "y", "f", "t">>,
               <<"g", "a", "s">>,
               <<"s", "h", "e", "l", "l">>,
               <<"c", "h", "e", "v", "r", "o", "n">>>>],
          [category |-> "housing",
           keywords |->
             <<<<"r", "e", "n", "t">>,
               <<"m", "o", "r", "t", "g", "a", "g", "e">>>>],
          [category |-> "groceries",
           keywords |->
             <<<<"w", "a", "l", "m", "a", "r", "t">>,
               <<"c", "o", "s", "t", "c", "o">>,
               <<"t", "a", "r", "g", "e", "t">>,
               <<"w", "h", "o", "l", "e", " ", "f", "o", "o", "d", "s">>,
               <<"t", "r", "a", "d", "e", "r", " ", "j", "o", "e">>>>],
          [category |-> "dining",
           keywords |->
             <<<<"r", "e", "s", "t", "a", "u", "r", "a", "n", "t">>,
               <<"d", "o", "o", "r", "d", "a", "s", "h">>,
               <<"g", "r", "u", "b", "h", "u", "b">>,
               <<"c", "o", "f", "f", "e", "e">>,
               <<"c", "a", "f", "e">>>>],
          [category |-> "subscriptions",
           keywords |->
             <<<<"n", "e", "t", "f", "l", "i", "x">>,
               <<"s", "p", "o", "t", "i", "f", "y">>,
               <<"h", "u", "l", "u">>,
               <<"p", "r", "i", "m", "e">>>>],
          [category |-> "healthcare",
           keywords |->
             <<<<"h", "o", "s", "p", "i", "t", "a", "l">>,
               <<"c", "l", "i", "n", "i", "c">>,
               <<"p", "h", "a", "r", "m", "a", "c", "y">>>>],
          [category |-> "insurance",
           keywords |->
             <<<<"i", "n", "s", "u", "r", "a", "n", "c", "e">>>>],
          [category |-> "education",
           keywords |->
             <<<<"t", "u", "i", "t", "i", "o", "n">>,
               <<"s", "t", "u", "d", "e", "n", "t", " ", "l", "o", "a", "n">>>>]>>

\* the category of the last rule with a keyword in desc
lastMatch(desc, rules, fallback) ==
    LET matching == {k \in 1..Len(rules) :
                        \E w \in 1..Len(rules[k].keywords) :
                            includes(desc, rules[k].keywords[w])}
    IN  IF matching = {} THEN fallback
        ELSE rules[CHOOSE k \in matching : \A j \in matching : j <= k].category
\* the chain of if statements: the category of the first rule with a keyword
\* in desc, the fallback when there is none
firstMatch(desc, rules, fallback) ==
    LET matching == {k \in 1..Len(rules) :
                        \E w \in 1..Len(rules[k].keywords) :
                            includes(desc, rules[k].keywords[w])}
    IN  IF matching = {} THEN fallback
        ELSE rules[CHOOSE k \in matching : \A j \in matching : k <= j].category

\* csv-parser.ts 138-186
classifyCategory(description, amount) ==
    LET desc == toLowerCase(description)
    IN  IF amount > 0 THEN firstMatch(desc, IncomeRules, "income_other")
        ELSE firstMatch(desc, ExpenseRules, "other")

\* Words of statement descriptions: keywords of the rules in either case,
\* words that hold a keyword inside (Vegas, Parent) and words that hold none.
DescriptionWords ==
    {<<"A", "C", "M", "E">>,
     <<"P", "A", "Y", "R", "O", "L", "L">>,
     <<"D", "E", "P", "O", "S", "I", "T">>,
     <<"U", "N", "K", "N", "O", "W", "N">>,
     <<"M", "E", "R", "C", "H", "A", "N", "T">>,
     <<"W", "a", "g", "e", "s">>,
     <<"I", "n", "t", "e", "r", "e", "s", "t">>,
     <<"d", "i", "v", "i", "d", "e", "n", "d">>,
     <<"U", "b", "e", "r">>,
     <<"V", "e", "g", "a", "s">>,
     <<"P", "a", "r", "e", "n", "t">>,
     <<"m", "o", "r", "t", "g", "a", "g", "e">>,
     <<"T", "a", "r", "g", "e", "t">>,
     <<"W", "h", "o", "l", "e", " ", "F", "o", "o", "d", "s">>,
     <<"C", "O", "F", "F", "E", "E">>,
     <<"c", "a", "f", "e">>,
     <<"N", "e", "t", "f", "l", "i", "x">>,
     <<"P", "r", "i", "m", "e">>,
     <<"C", "l", "i", "n", "i", "c">>,
     <<"I", "n", "s", "u", "r", "a", "n", "c", "e">>,
     <<"t", "u", "i", "t", "i", "o", "n">>,
     <<"S", "t", "u", "d", "e", "n", "t", " ", "L", "o", "a", "n">>}

\* a description is one word, or two separated by a space; the amounts are
\* 1500.00, -42.00, 0 and one cent either side of 0
CallClassifyCategory ==
    /\ NothingCalled
    /\ \E description \in DescriptionWords
                             \cup {first \o <<" ">> \o second :
                                      first \in DescriptionWords,
                                      second \in DescriptionWords},
          amount \in {1500 * UNIT, -(42 * UNIT), 0, CENT, -CENT} :
          call' = [fn |-> "classifyCategory", description |-> description,
                   amount |-> amount,
                   result |-> classifyCategory(description, amount)]
    /\ UNCHANGED <<limiterVars, handlerVars, batch>>

\* ===================================== csv-parser.ts: rows of a tabular file
\* csv-parser.ts 23-27
DATE_FIELD_KEYS ==
    <<<<"d", "a", "t", "e">>,
         <<"t", "r", "a", "n", "s", "a", "c", "t", "i", "o", "n", "_", "d", "a", "t", "e">>,
         <<"p", "o", "s", "t", "e", "d", "_", "d", "a", "t", "e">>,
         <<"p", "o", "s", "t", "_", "d", "a", "t", "e">>,
         <<"v", "a", "l", "u", "e", "_", "d", "a", "t", "e">>>>
DESCRIPTION_FIELD_KEYS ==
    <<<<"d", "e", "s", "c", "r", "i", "p", "t", "i", "o", "n">>,
         <<"m", "e", "m", "o">>,
         <<"p", "a", "y", "e", "e">>,
         <<"m", "e", "r", "c", "h", "a", "n", "t">>,
         <<"n", "a", "r", "r", "a", "t", "i", "o", "n">>,
         <<"d", "e", "t", "a", "i", "l", "s">>,
         <<"t", "r", "a", "n", "s", "a", "c", "t", "i", "o", "n">>>>
AMOUNT_FIELD_KEYS ==
    <<<<"a", "m", "o", "u", "n", "t">>,
         <<"t", "r", "a", "n", "s", "a", "c", "t", "i", "o", "n", "_", "a", "m", "o", "u", "n", "t">>,
         <<"v", "a", "l", "u", "e">>,
         <<"t", "r", "a", "n", "s", "a", "c", "t", "i", "o", "n", " ", "v", "a", "l", "u", "e">>,
         <<"a", "m", "t">>>>
DEBIT_FIELD_KEYS ==
    <<<<"d", "e", "b", "i", "t">>,
         <<"w", "i", "t", "h", "d", "r", "a", "w", "a", "l">>,
         <<"w", "i", "t", "h", "d", "r", "a", "w", "a", "l", "s">>,
         <<"p", "a", "y", "m", "e", "n", "t">>,
         <<"o", "u", "t", "f", "l", "o", "w">>,
         <<"d", "e", "b", "i", "t", "s">>>>
CREDIT_FIELD_KEYS ==
    <<<<"c", "r", "e", "d", "i", "t">>,
         <<"d", "e", "p", "o", "s", "i", "t">>,
         <<"d", "e", "p", "o", "s", "i", "t", "s">>,
         <<"i", "n", "f", "l", "o", "w">>,
         <<"c", "r", "e", "d", "i", "t", "s">>>>

\* csv-parser.ts 51-97 for a text cell: a text YYYY-MM-DD with a month and a
\* day of the calendar is itself (new Date reads it as UTC), an empty cell
\* throws; the other cells of the model hold no numeral, so new Date gives an
\* invalid date, there are no three parts, and the call throws.  The date is
\* the number YYYYMMDD.
normalizeDate(value) ==
    LET raw == Trim(value)
        iso == /\ Len(raw) = 10
               /\ \A i \in {1, 2, 3, 4, 6, 7, 9, 10} : isDigit(raw[i])
               /\ raw[5] = "-" /\ raw[8] = "-"
               /\ DigitsValue(SubSeq(raw, 6, 7)) \in 1..12
               /\ DigitsValue(SubSeq(raw, 9, 10)) \in 1..31
    IN  IF raw # <<>> /\ iso
        THEN [ok |-> TRUE,
              date |-> DigitsValue(SubSeq(raw, 1, 4)) * 10000
                       + DigitsValue(SubSeq(raw, 6, 7)) * 100
                       + DigitsValue(SubSeq(raw, 9, 10))]
        ELSE [ok |-> FALSE, error |-> "Invalid date format"]

\* A CSV text is its header line and its data lines, each the sequence of its
\* fields.  Papa.parse with header: true, skipEmptyLines: true and
\* transformHeader (csv-parser.ts 704-708): empty lines are skipped, the
\* header fields are trimmed, every line becomes an object of its fields
\* under the header's names, and a line whose number of fields differs from
\* the header's adds a FieldMismatch error (TooFewFields, TooManyFields).
papaParse(text) ==
    LET lines == SelectSeq(text.lines, LAMBDA line : line # <<>>)
        fields == [i \in 1..Len(text.header) |-> Trim(text.header[i])]
        mismatched == SelectSeq([k \in 1..Len(lines) |-> k],
                                LAMBDA k : Len(lines[k]) # Len(fields))
    IN  [data |-> [k \in 1..Len(lines) |-> [fields |-> fields, cells |-> lines[k]]],
         errors |-> [e \in 1..Len(mismatched) |->
                       [type |-> "FieldMismatch",
                        code |-> IF Len(lines[mismatched[e]]) < Len(fields)
                                 THEN "TooFewFields" ELSE "TooManyFields",
                        row |-> mismatched[e] - 1]]]

\* csv-parser.ts 188-196
normalizeRowKeys(row) ==
    [fields |-> [i \in 1..Len(row.fields) |-> Trim(toLowerCase(row.fields[i]))],
     cells |-> row.cells]

\* csv-parser.ts 198-207: the value under the first of the keys that has one
\* that is not blank
pickField(normalized, keys) ==
    LET present(k) ==
            {i \in 1..Min(Len(normalized.fields), Len(normalized.cells)) :
                /\ normalized.fields[i] = keys[k]
                /\ Trim(normalized.cells[i]) # <<>>}
        found == {k \in 1..Len(keys) : present(k) # {}}
    IN  IF found = {} THEN [defined |-> FALSE]
        ELSE LET k == CHOOSE first \in found : \A other \in found : first <= other
             IN  [defined |-> TRUE,
                  value |-> normalized.cells[CHOOSE i \in present(k) : TRUE]]

\* a debit that keeps the sign of a credit
netAmountUnsigned(debit, credit) ==
    IF credit > 0 /\ debit > 0 THEN [kind |-> "value", value |-> credit - debit]
    ELSE IF credit > 0 THEN [kind |-> "value", value |-> credit]
    ELSE IF debit > 0 THEN [kind |-> "value", value |-> debit]
    ELSE [kind |-> "null"]
\* csv-parser.ts 228-232: the amount of the magnitudes of debit and credit
netAmount(debit, credit) ==
    IF credit > 0 /\ debit > 0 THEN [kind |-> "value", value |-> credit - debit]
    ELSE IF credit > 0 THEN [kind |-> "value", value |-> credit]
    ELSE IF debit > 0 THEN [kind |-> "value", value |-> -debit]
    ELSE [kind |-> "null"]

\* csv-parser.ts 209-233: a value, null, or the exception of parseAmount
extractAmountFromNormalized(normalized) ==
    LET parsedOrThrown(parsed) ==
            IF parsed.ok THEN [kind |-> "value", value |-> parsed.value]
            ELSE [kind |-> "throws", error |-> parsed.error]
        netOf(parsedDebit, parsedCredit) ==
            IF ~parsedDebit.ok THEN [kind |-> "throws", error |-> parsedDebit.error]
            ELSE IF ~parsedCredit.ok
            THEN [kind |-> "throws", error |-> parsedCredit.error]
            ELSE netAmount(Abs(parsedDebit.value), Abs(parsedCredit.value))
        \* an absent column counts 0 and parses nothing
        absent == [ok |-> TRUE, value |-> 0]
        fromColumns(amountRaw, debitRaw, creditRaw) ==
            IF amountRaw.defined THEN parsedOrThrown(parseAmount(amountRaw.value))
            ELSE IF ~debitRaw.defined /\ ~creditRaw.defined THEN [kind |-> "null"]
            ELSE netOf(IF debitRaw.defined THEN parseAmount(debitRaw.value) ELSE absent,
                       IF creditRaw.defined THEN parseAmount(creditRaw.value) ELSE absent)
    IN  fromColumns(pickField(normalized, AMOUNT_FIELD_KEYS),
                    pickField(normalized, DEBIT_FIELD_KEYS),
                    pickField(normalized, CREDIT_FIELD_KEYS))

\* csv-parser.ts 235-265: a transaction, null, or the exception that
\* extractAmountFromNormalized lets through (the call at 244 is outside the
\* try of 254-264, which covers normalizeDate only)
rowToTransaction(row) ==
    LET build(dateRaw, descriptionRaw, amount) ==
            LET description == Trim(descriptionRaw.value)
                dated(normalizedDate) ==
                    IF ~normalizedDate.ok THEN [kind |-> "null"]
                    ELSE [kind |-> "transaction",
                          tx |-> [date |-> normalizedDate.date,
                                  description |-> description,
                                  amount |-> amount.value,
                                  category |-> classifyCategory(description,
                                                                amount.value)]]
            IN  IF ~dateRaw.defined \/ ~descriptionRaw.defined THEN [kind |-> "null"]
                ELSE IF amount.kind = "throws" THEN amount
                ELSE IF amount.kind = "null" THEN [kind |-> "null"]
                ELSE IF description = <<>> THEN [kind |-> "null"]
                ELSE dated(normalizeDate(dateRaw.value))
    IN  build(pickField(normalizeRowKeys(row), DATE_FIELD_KEYS),
              pickField(normalizeRowKeys(row), DESCRIPTION_FIELD_KEYS),
              extractAmountFromNormalized(normalizeRowKeys(row)))

\* csv-parser.ts 701-717: an error of Papa.parse throws, and so does a row
\* whose builder throws; the rows built to null are filtered out
parseCsvTransactions(text) ==
    LET filtered(built) ==
            LET thrown == {k \in 1..Len(built) : built[k].kind = "throws"}
                kept == SelectSeq(built, LAMBDA b : b.kind = "transaction")
            IN  IF thrown # {}
                THEN [ok |-> FALSE,
                      error |-> built[CHOOSE k \in thrown :
                                         \A j \in thrown : k <= j].error]
                ELSE [ok |-> TRUE, transactions |-> [k \in 1..Len(kept) |-> kept[k].tx]]
        mapped(result) ==
            IF Len(result.errors) > 0 THEN [ok |-> FALSE, error |-> "CSV parse error"]
            ELSE filtered([k \in 1..Len(result.data) |->
                              rowToTransaction(result.data[k])])
    IN  mapped(papaParse(text))

\* csv-parser.ts 813-841 on a file given by its kind and what is read in it:
\* the text of a CSV, the transactions parseExcelTransactions builds from a
\* workbook, the transactions the three strategies read in a PDF
parseStatementFile(statement) ==
    IF statement.kind = "csv"
    THEN LET finalized(transactions) ==
                 IF transactions.ok THEN finalizeResult(transactions.transactions)
                 ELSE transactions
         IN  finalized(parseCsvTransactions(statement.text))
    ELSE IF statement.kind = "excel"
    THEN IF Len(statement.transactions) = 0
         THEN [ok |-> FALSE,
               error |-> "No valid transaction rows were found in Excel file"]
         ELSE finalizeResult(statement.transactions)
    ELSE IF statement.kind = "pdf"
    THEN LET finalized(transactions) ==
                 IF Len(transactions) = 0
                 THEN [ok |-> FALSE,
                       error |-> "No valid transaction rows were found in PDF"]
                 ELSE finalizeResult(transactions)
         IN  finalized(mergePdfStrategies(statement.strategies))
    ELSE [ok |-> FALSE, error |-> "Unsupported statement format"]

\* Date,Description,Amount
CsvHeader ==
    <<<<"D", "a", "t", "e">>, <<"D", "e", "s", "c", "r", "i", "p", "t", "i", "o", "n">>, <<"A", "m", "o", "u", "n", "t">>>>
\* 2024-01-05,Grocery Store,-54.32
lineGrocery ==
    <<<<"2", "0", "2", "4", "-", "0", "1", "-", "0", "5">>, <<"G", "r", "o", "c", "e", "r", "y", " ", "S", "t", "o", "r", "e">>, <<"-", "5", "4", ".", "3", "2">>>>
\* 2024-01-15,Employer Payroll,2000.00
linePayroll ==
    <<<<"2", "0", "2", "4", "-", "0", "1", "-", "1", "5">>, <<"E", "m", "p", "l", "o", "y", "e", "r", " ", "P", "a", "y", "r", "o", "l", "l">>, <<"2", "0", "0", "0", ".", "0", "0">>>>
\* 2024-01-20,(120.50): no description
lineShort ==
    <<<<"2", "0", "2", "4", "-", "0", "1", "-", "2", "0">>, <<"(", "1", "2", "0", ".", "5", "0", ")">>>>
\* besides these: 2024-01-22,Uber,abc (an amount that is no number),
\* n/a,Target,-10.00 (a date that is no date) and 2024-01-25,  ,-5.00 (a
\* blank description)
CsvLines ==
    {lineGrocery, linePayroll, lineShort,
     <<<<"2", "0", "2", "4", "-", "0", "1", "-", "2", "2">>, <<"U", "b", "e", "r">>, <<"a", "b", "c">>>>,
     <<<<"n", "/", "a">>, <<"T", "a", "r", "g", "e", "t">>, <<"-", "1", "0", ".", "0", "0">>>>,
     <<<<"2", "0", "2", "4", "-", "0", "1", "-", "2", "5">>, <<" ", " ">>, <<"-", "5", ".", "0", "0">>>>}
CsvTexts ==
    {[header |-> CsvHeader, lines |-> lines] :
        lines \in UNION {[1..n -> CsvLines] : n \in 0..MaxCsvLines}}

CallParseCsvTransactions ==
    /\ NothingCalled
    /\ \E text \in CsvTexts :
          call' = [fn |-> "parseCsvTransactions", text |-> text,
                   result |-> parseCsvTransactions(text)]
    /\ UNCHANGED <<limiterVars, handlerVars, batch>>

\* statements of every kind parseBankStatement tells apart
CallParseBankStatement ==
    /\ NothingCalled
    /\ \E statement \in
              {[kind |-> "csv", text |-> text] : text \in CsvTexts}
              \cup {[kind |-> "excel", transactions |-> transactions] :
                       transactions \in {<<>>, <<tPay>>, <<tFood, tPay>>,
                                         <<tPay, tTiny, tPay>>}}
              \cup {[kind |-> "pdf", strategies |-> strategies] :
                       strategies \in {<<(<<>>), (<<>>), (<<>>)>>,
                                       <<(<<tCafe, tUber>>), (<<tUBER>>), (<<>>)>>}}
              \cup {[kind |-> "other"]} :
          call' = [fn |-> "parseBankStatement", statement |-> statement,
                   result |-> parseStatementFile(statement)]
    /\ UNCHANGED <<limiterVars, handlerVars, batch>>

\* ============================================== route.ts: the sanitize step
\* Candidate rows of a parse: the smallest and the largest magnitude kept,
\* a date that is not of ISO shape, a blank description, an amount that is
\* no number, besides the rows of the stored files.
SanitizeCandidates ==
    {tPay, tRent, tTiny, tHuge,
     [date |-> 20240107, description |-> <<"F">>, amount |-> CENT,
      category |-> "income_other"],
     [date |-> 20240108, description |-> <<"C">>,
      amount |-> -DEFAULT_MAX_TRANSACTION_ABS, category |-> "other"],
     [date |-> -1, description |-> <<"D">>, amount |-> -UNIT, category |-> "other"],
     [date |-> 20240112, description |-> <<" ", " ">>, amount |-> -UNIT,
      category |-> "other"],
     [date |-> 20240113, description |-> <<"N">>, amount |-> NotANumber,
      category |-> "other"]}

\* route.ts 78-110 on the rows of a parse, and the rows the handler would
\* upsert for them (route.ts 582-636) with the table as it is, for lists of
\* distinct candidate rows (the sums of the model stay within the integers
\* of TLC, as the sums of the code stay within the doubles)
CallSanitize ==
    /\ NothingCalled
    /\ \E transactions \in
              {rows \in UNION {[1..n -> SanitizeCandidates] :
                                  n \in 0..MaxSanitizeRows} :
                  \A i, j \in 1..Len(rows) : rows[i] = rows[j] => i = j} :
          LET result == buildParseResultFromTransactions(transactions)
          IN  call' = [fn |-> "sanitizeTransactionsForStorage",
                       transactions |-> transactions,
                       sanitized |-> sanitizeTransactionsForStorage(transactions),
                       result |-> result,
                       stored |-> IF result.ok
                                  THEN monthRowsToUpsert(transaction_summaries, "d1",
                                                         result.transactions)
                                  ELSE {}]
    /\ UNCHANGED <<limiterVars, handlerVars, batch>>

\* ======================================= the aggregators on lists of expenses
\* route.ts 396-442 and lib/utils/transactions.ts 13-75 on a list of expenses
\* of up to MaxMerchants merchants (merchant i is M followed by i times x) in
\* one month or two, with amounts that rise, fall or stay equal along the
\* list, followed by nothing, by a second expense of the first merchant, by
\* two descriptions that differ after their 50th character, by an expense
\* described "constructor", or by an income.
CallSummarizeTransactions ==
    /\ NothingCalled
    /\ \E n \in 0..MaxMerchants, months \in 1..2,
          amounts \in {"rising", "falling", "equal"},
          extra \in {"none", "repeat", "long", "inherited", "income"} :
          LET expense(date, description, units) ==
                  [date |-> date, description |-> description,
                   amount |-> -(units * UNIT), category |-> "other"]
              long(last) == [k \in 1..MERCHANT_KEY_LEN |-> "a"] \o <<last>>
              listed ==
                  [i \in 1..n |->
                      expense(IF months = 2 /\ i % 2 = 0 THEN 20240210 ELSE 20240110,
                              <<"M">> \o [k \in 1..i |-> "x"],
                              CASE amounts = "rising" -> i
                                [] amounts = "falling" -> MaxMerchants + 1 - i
                                [] OTHER -> 1)]
              added ==
                  CASE extra = "repeat" -> <<expense(20240111, <<"M", "x">>, 20)>>
                    [] extra = "long" -> <<expense(20240112, long("b"), 30),
                                           expense(20240113, long("c"), 30)>>
                    [] extra = "inherited" ->
                           <<expense(20240114,
                                     <<"c", "o", "n", "s", "t", "r", "u", "c", "t", "o", "r">>,
                                     40)>>
                    [] extra = "income" -> <<tPay>>
                    [] OTHER -> <<>>
              summarized(transactions) ==
                  [fn |-> "summarizeTransactions", transactions |-> transactions,
                   summary |-> summarizeTransactions(transactions),
                   byMonth |-> groupTransactionsByMonth(transactions)]
          IN  call' = summarized(listed \o added)
    /\ UNCHANGED <<limiterVars, handlerVars, batch>>

\* ============================= csv-parser.ts: a row with the amount columns
\* One line under the header Date,Description,Amount,Debit,Credit: the cells
\* of the three amount columns are empty, blank, 0.00, 50.00, (20.00) or abc.
\* The call gives what extractAmountFromNormalized and rowToTransaction make
\* of the row Papa.parse builds, and what parseBankStatement returns for the
\* file of that one line.
CallRowToTransaction ==
    /\ NothingCalled
    /\ \E amount, debit, credit \in
              {<<>>, <<" ">>, <<"0", ".", "0", "0">>, <<"5", "0", ".", "0", "0">>,
               <<"(", "2", "0", ".", "0", "0", ")">>, <<"a", "b", "c">>} :
          LET text == [header |-> <<<<"D", "a", "t", "e">>,
                                    <<"D", "e", "s", "c", "r", "i", "p", "t", "i", "o", "n">>,
                                    <<"A", "m", "o", "u", "n", "t">>,
                                    <<"D", "e", "b", "i", "t">>,
                                    <<"C", "r", "e", "d", "i", "t">>>>,
                       lines |-> <<<<<<"2", "0", "2", "4", "-", "0", "1", "-", "2", "6">>,
                                     <<"T", "r", "a", "n", "s", "f", "e", "r">>,
                                     amount, debit, credit>>>>]
          IN  call' = [fn |-> "rowToTransaction",
                       row |-> papaParse(text).data[1],
                       amount |-> extractAmountFromNormalized(
                                      normalizeRowKeys(papaParse(text).data[1])),
                       transaction |-> rowToTransaction(papaParse(text).data[1]),
                       result |-> parseStatementFile([kind |-> "csv", text |-> text])]
    /\ UNCHANGED <<limiterVars, handlerVars, batch>>

\* ================================ csv-parser.ts: the rows of a sheet
\* csv-parser.ts 357 and 674-676: asCleanString(cell).toLowerCase()
\* .replace(/[^a-z0-9]+/g, '_'), every run of other characters one underscore
normalizeHeader(cell) ==
    LET kept(c) == isDigit(c) \/ \E k \in 1..Len(LowerCase) : c = LowerCase[k]
        squeezed(lower, first) ==
            [k \in 1..Len(first) |->
                IF kept(lower[first[k]]) THEN lower[first[k]] ELSE "_"]
        replaced(lower) ==
            squeezed(lower,
                     SelectSeq([i \in 1..Len(lower) |-> i],
                               LAMBDA i : kept(lower[i]) \/ i = 1 \/ kept(lower[i - 1])))
    IN  replaced(toLowerCase(Trim(cell)))

\* csv-parser.ts 356-368
scoreHeaderRow(cells) ==
    LET some(headers, keys) == IF headers \cap Range(keys) # {} THEN 1 ELSE 0
        score(headers) ==
            some(headers, DATE_FIELD_KEYS) + some(headers, DESCRIPTION_FIELD_KEYS)
            + some(headers, AMOUNT_FIELD_KEYS \o DEBIT_FIELD_KEYS \o CREDIT_FIELD_KEYS)
    IN  score({normalizeHeader(cells[i]) : i \in 1..Len(cells)})

\* csv-parser.ts 370-381, in the positions of TLA+: the first of the first 25
\* rows that scores 2 or more, 0 (for -1) when there is none
findHeaderRowIndex(rows) ==
    LET firstOf(scored) ==
            IF scored = {} THEN 0
            ELSE CHOOSE index \in scored : \A other \in scored : index <= other
    IN  firstOf({index \in 1..Min(Len(rows), 25) : scoreHeaderRow(rows[index]) >= 2})

\* csv-parser.ts 383-385:
\* /^-?\$?\(?((\d{1,3}(,\d{3})+)|\d+)(\.\d{2})?\)?-?(\s?(CR|DR))?$/i on the
\* trimmed text.  Every optional part is taken off when it is there: what
\* must follow it cannot begin, or end, with the same character.
looksLikeAmountToken(value) ==
    LET without(t, c) == IF t # <<>> /\ Head(t) = c THEN Tail(t) ELSE t
        withoutLast(t, c) ==
            IF t # <<>> /\ t[Len(t)] = c THEN SubSeq(t, 1, Len(t) - 1) ELSE t
        withoutCrDr(t) ==
            IF Len(t) >= 2 /\ toLowerCase(SubSeq(t, Len(t) - 1, Len(t)))
                                  \in {<<"c", "r">>, <<"d", "r">>}
            THEN withoutLast(SubSeq(t, 1, Len(t) - 2), " ")
            ELSE t
        withoutDecimals(t) ==
            IF /\ Len(t) >= 3
               /\ t[Len(t) - 2] = "."
               /\ isDigit(t[Len(t) - 1])
               /\ isDigit(t[Len(t)])
            THEN SubSeq(t, 1, Len(t) - 3) ELSE t
        digits(t) == t # <<>> /\ \A i \in 1..Len(t) : isDigit(t[i])
        grouped(t) ==
            /\ Len(t) >= 5
            /\ \A i \in 1..Len(t) :
                  IF (Len(t) - i) % 4 = 3 THEN i > 1 /\ t[i] = "," ELSE isDigit(t[i])
            /\ (Len(t) + 1) % 4 # 0
        numeral(t) == digits(t) \/ grouped(t)
    IN  numeral(
            withoutDecimals(
                withoutLast(
                    withoutLast(
                        withoutCrDr(
                            without(without(without(Trim(value), "-"), "$"), "(")),
                        "-"),
                    ")")))

\* csv-parser.ts 387-389
looksLikePositiveDescription(text) ==
    \E word \in
        {<<"c", "r", "e", "d", "i", "t">>,
         <<"d", "e", "p", "o", "s", "i", "t">>,
         <<"p", "a", "y", "r", "o", "l", "l">>,
         <<"s", "a", "l", "a", "r", "y">>,
         <<"r", "e", "f", "u", "n", "d">>,
         <<"i", "n", "t", "e", "r", "e", "s", "t">>,
         <<"d", "i", "v", "i", "d", "e", "n", "d">>,
         <<"t", "r", "a", "n", "s", "f", "e", "r", " ", "i", "n">>,
         <<"a", "c", "h", " ", "c", "r", "e", "d", "i", "t">>} :
        testToken(text, word)

\* csv-parser.ts 99-107
hasAmountSign(raw) ==
    LET dashed(trimmed) ==
            trimmed # <<>> /\ (Head(trimmed) = "-" \/ trimmed[Len(trimmed)] = "-")
    IN  \/ \E i \in 1..Len(raw) : raw[i] \in {"(", ")"}
        \/ dashed(Trim(raw))
        \/ \E word \in {<<"c", "r">>, <<"d", "r">>} : testToken(raw, word)

\* csv-parser.ts 619-666: a transaction or null (safeParseAmount, 391-397,
\* turns the exception of parseAmount into null)
parseSimpleRow(row) ==
    LET RECURSIVE join(_)
        join(parts) ==
            IF parts = <<>> THEN <<>>
            ELSE IF Len(parts) = 1 THEN parts[1]
            ELSE parts[1] \o <<" ">> \o join(Tail(parts))
        priced(normalizedDate, description, amountToken, parsedAmount) ==
            IF ~parsedAmount.ok THEN [kind |-> "null"]
            ELSE IF description = <<>> THEN [kind |-> "null"]
            ELSE LET amount ==
                         IF hasAmountSign(amountToken)
                            \/ looksLikePositiveDescription(description)
                         THEN parsedAmount.value
                         ELSE -Abs(parsedAmount.value)
                 IN  [kind |-> "transaction",
                      tx |-> [date |-> normalizedDate.date,
                              description |-> description,
                              amount |-> amount,
                              category |-> classifyCategory(description, amount)]]
        located(cells, normalizedDate, amountIndex) ==
            priced(normalizedDate,
                   Trim(join(SubSeq(cells, 2, amountIndex - 1))),
                   cells[amountIndex],
                   parseAmount(cells[amountIndex]))
        found(cells, normalizedDate, indexes) ==
            IF ~normalizedDate.ok THEN [kind |-> "null"]
            ELSE IF indexes = {} THEN [kind |-> "null"]
            ELSE located(cells, normalizedDate,
                         CHOOSE idx \in indexes : \A other \in indexes : other <= idx)
        scanned(cells, normalizedDate) ==
            found(cells, normalizedDate,
                  {idx \in 2..Len(cells) : looksLikeAmountToken(cells[idx])})
        cleaned(cells) ==
            IF Len(cells) < 3 THEN [kind |-> "null"]
            ELSE scanned(cells, normalizeDate(cells[1]))
    IN  cleaned(SelectSeq([i \in 1..Len(row) |-> Trim(row[i])],
                          LAMBDA cell : cell # <<>>))

\* csv-parser.ts 669-691: the transactions of the rows under the header row,
\* none without a header row; a row whose builder throws ends the call
headerTransactions(rows) ==
    LET firstOf(thrown) == CHOOSE index \in thrown : \A other \in thrown : index <= other
        txOf(kept) == [k \in 1..Len(kept) |-> kept[k].tx]
        collected(built, thrown) ==
            IF thrown # {}
            THEN [ok |-> FALSE, error |-> built[firstOf(thrown)].error]
            ELSE [ok |-> TRUE,
                  transactions |-> txOf(SelectSeq(built, LAMBDA b : b.kind = "transaction"))]
        judged(built) ==
            collected(built, {index \in 1..Len(built) : built[index].kind = "throws"})
        headersAt(headerRowIndex) ==
            [i \in 1..Len(rows[headerRowIndex]) |->
                normalizeHeader(rows[headerRowIndex][i])]
    IN  judged([k \in 1..(IF findHeaderRowIndex(rows) >= 1
                          THEN Len(rows) - findHeaderRowIndex(rows) ELSE 0) |->
                   rowToTransaction([fields |-> headersAt(findHeaderRowIndex(rows)),
                                     cells |-> rows[findHeaderRowIndex(rows) + k]])])

\* csv-parser.ts 697-699: every row of the sheet read as a plain listing
simpleTransactions(rows) ==
    LET txOf(kept) == [k \in 1..Len(kept) |-> kept[k].tx]
    IN  txOf(SelectSeq([k \in 1..Len(rows) |-> parseSimpleRow(rows[k])],
                       LAMBDA b : b.kind = "transaction"))

\* the rows of both readings together
parseRowsMixed(rows) ==
    LET chosen(header) ==
            IF ~header.ok THEN header
            ELSE [ok |-> TRUE,
                  transactions |-> header.transactions \o simpleTransactions(rows)]
    IN  chosen(headerTransactions(rows))
\* csv-parser.ts 668-699
parseRowsToTransactions(rows) ==
    LET chosen(header) ==
            IF ~header.ok THEN header
            ELSE IF Len(header.transactions) > 0 THEN header
            ELSE [ok |-> TRUE, transactions |-> simpleTransactions(rows)]
    IN  chosen(headerTransactions(rows))

\* a sheet of up to MaxSheetRows rows: header rows with and without an amount
\* column, listing rows, a row without a date and a row whose amount is no
\* numeral
CallParseRowsToTransactions ==
    /\ NothingCalled
    /\ \E n \in 1..MaxSheetRows :
       \E rows \in [1..n ->
              {<<<<"D", "a", "t", "e">>, <<"D", "e", "s", "c", "r", "i", "p", "t", "i", "o", "n">>, <<"A", "m", "o", "u", "n", "t">>>>,
               <<<<"D", "a", "t", "e">>, <<"D", "e", "t", "a", "i", "l", "s">>, <<"B", "a", "l", "a", "n", "c", "e">>>>,
               <<<<"2", "0", "2", "4", "-", "0", "1", "-", "0", "8">>, <<"U", "b", "e", "r">>, <<"1", "2", ".", "0", "0">>, <<"1", "0", "0", ".", "0", "0">>>>,
               <<<<"2", "0", "2", "4", "-", "0", "1", "-", "0", "9">>, <<"P", "a", "y", "r", "o", "l", "l", " ", "d", "e", "p", "o", "s", "i", "t">>, <<"1", ",", "5", "0", "0", ".", "0", "0">>>>,
               <<<<"n", "/", "a">>, <<"T", "a", "r", "g", "e", "t">>, <<"-", "1", "0", ".", "0", "0">>>>,
               <<<<"2", "0", "2", "4", "-", "0", "1", "-", "1", "0">>, <<"G", "y", "m">>, <<"a", "b", "c">>>>}] :
          call' = [fn |-> "parseRowsToTransactions", rows |-> rows,
                   result |-> parseRowsToTransactions(rows)]
    /\ UNCHANGED <<limiterVars, handlerVars, batch>>

\* ================================ client.ts: the parallelism of the batches
\* the configured value floored and kept at 1 or more, with no upper limit
getParallelismUnclamped(configured, fallback, max) ==
    LET floored(parsed) ==
            IF parsed.nan \/ parsed.value <= 0 THEN fallback
            ELSE Max(parsed.value \div UNIT, 1)
        infinite(text) ==
            text \in {<<"I", "n", "f", "i", "n", "i", "t", "y">>,
                      <<"+", "I", "n", "f", "i", "n", "i", "t", "y">>,
                      <<"-", "I", "n", "f", "i", "n", "i", "t", "y">>}
    IN  IF ~configured.defined THEN fallback
        ELSE IF infinite(Trim(configured.value)) THEN fallback
        ELSE floored(NumberOf(configured.value))
\* client.ts 382-388: Number(undefined) is NaN, Number('Infinity') is not
\* finite, and both give the fallback
getParallelism(configured, fallback, max) ==
    LET clamped(parsed) ==
            IF parsed.nan \/ parsed.value <= 0 THEN fallback
            ELSE Min(Max(parsed.value \div UNIT, 1), max)
        infinite(text) ==
            text \in {<<"I", "n", "f", "i", "n", "i", "t", "y">>,
                      <<"+", "I", "n", "f", "i", "n", "i", "t", "y">>,
                      <<"-", "I", "n", "f", "i", "n", "i", "t", "y">>}
    IN  IF ~configured.defined THEN fallback
        ELSE IF infinite(Trim(configured.value)) THEN fallback
        ELSE clamped(NumberOf(configured.value))

\* client.ts 250 and 591: the concurrency of a caller of runInBatches, for the
\* variable of the environment unset or set to a text
CallGetParallelism ==
    /\ NothingCalled
    /\ \E caller \in {"extractTransactionsFromPDFChunks", "cleanTransactionNamesWithLLM"},
          configured \in
                   {[defined |-> FALSE],
                    [defined |-> TRUE, value |-> <<>>],
                    [defined |-> TRUE, value |-> <<"a", "b", "c">>],
                    [defined |-> TRUE, value |-> <<"0">>],
                    [defined |-> TRUE, value |-> <<"-", "2">>],
                    [defined |-> TRUE, value |-> <<"0", ".", "5">>],
                    [defined |-> TRUE, value |-> <<"1">>],
                    [defined |-> TRUE, value |-> <<"2", ".", "9">>],
                    [defined |-> TRUE, value |-> <<"2", "5">>],
                    [defined |-> TRUE, value |-> <<"I", "n", "f", "i", "n", "i", "t", "y">>]} :
          call' = [fn |-> "getParallelism", caller |-> caller,
                   configured |-> configured,
                   concurrency |->
                       IF caller = "extractTransactionsFromPDFChunks"
                       THEN getParallelism(configured, 6, 20)
                       ELSE getParallelism(configured, 4, 12)]
    /\ UNCHANGED <<limiterVars, handlerVars, batch>>

\* client.ts 251-252 and 592-593, then 395-397: runInBatches is called with
\* a concurrency that getParallelism returned; the call and its first locals
\* (every invocation has locals of its own), for every list of items and every
\* outcome of their runners
CallRunInBatches ==
    /\ NothingCalled
    /\ \E items \in UNION {[1..n -> [value : {"a", "b"}, succeeds : BOOLEAN]] :
                               n \in 0..MaxItems},
          concurrency \in
              {getParallelism([defined |-> TRUE, value |-> configured], 6, 20) :
                  configured \in {<<>>, <<"1">>, <<"2", ".", "9">>, <<"2", "5">>}}
              \cup
              {getParallelism([defined |-> TRUE, value |-> configured], 4, 12) :
                  configured \in {<<>>, <<"0", ".", "5">>}} :
          batch' = [pc |-> "loop", concurrency |-> concurrency,
                    items |-> items, size |-> Max(1, concurrency),
                    index |-> 0, runs |-> [k \in 1..Len(items) |-> 0],
                    settled |-> <<>>, output |-> <<>>, errors |-> <<>>]
    /\ UNCHANGED <<limiterVars, handlerVars, call>>

\* The parsing library and runInBatches on their own: every call draws its
\* inputs from a bounded set; the handler's tables are left alone.
LibNext ==
    \/ CallRunInBatches
    \/ DispatchBatch
    \/ \E offset \in 1..MaxItems : SettleRunner(offset)
    \/ CollectBatch
    \/ ReturnBatches
    \/ CallMergePdfStrategies
    \/ CallParseAmount
    \/ CallClassifyCategory
    \/ CallParseCsvTransactions
    \/ CallParseBankStatement
    \/ CallSanitize
    \/ CallSummarizeTransactions
    \/ CallRowToTransaction
    \/ CallParseRowsToTransactions
    \/ CallGetParallelism

\* the handler is not running; one arrangement of stored files is taken
LibInit ==
    /\ Init
    /\ file = [d \in DocIds |->
                 IF d = "d1" THEN CHOOSE f \in PdfFiles : f.rows # <<>>
                 ELSE CHOOSE f \in TabularFiles : f.rows = <<tRent>>]

SpecLib == LibInit /\ [][LibNext]_vars

\* ================================================== middleware (part_000)
\* the timestamps at most WINDOW_MS old
recentAtOrBefore(log, now) ==
    SelectSeq(log, LAMBDA timestamp : now - timestamp <= WINDOW_MS)
\* part_000 405: (requestLog.get(ip) || []).filter(...)
recentOf(log, now) ==
    SelectSeq(log, LAMBDA timestamp : now - timestamp < WINDOW_MS)

\* part_000 403-425: one API request of `ip` at the moment `now`; the clock
\* does not run backwards
Middleware(ip, now) ==
    /\ now >= clock
    /\ handled[ip] < (IF ip = "10.0.0.1" THEN MaxRequests ELSE MaxOtherRequests)
    /\ clock' = now
    /\ handled' = [handled EXCEPT ![ip] = @ + 1]
    /\ LET recent == recentOf(requestLog[ip], now)
       IN  IF Len(recent) >= LIMIT
           THEN /\ requestLog' = [requestLog EXCEPT ![ip] = recent]
                /\ passed' = passed
                /\ lastResponse' = [status |-> 429, ip |-> ip, at |-> now]
           ELSE /\ requestLog' = [requestLog EXCEPT ![ip] = Append(recent, now)]
                /\ passed' = [passed EXCEPT ![ip] = Append(@, now)]
                /\ lastResponse' = [status |-> 200, ip |-> ip, at |-> now]
    /\ UNCHANGED <<handlerVars, batch, call>>

RateNext ==
    \E ip \in IPs, now \in Times : Middleware(ip, now)

SpecRate == LibInit /\ [][RateNext]_vars

\* ============================== route.ts 451-498: who may start processing
\* an internal call also when no secret is configured and the header is empty
isInternalCallOrEmpty(configuredSecret, internalSecret) ==
    /\ internalSecret.defined
    /\ internalSecret.value = (IF configuredSecret.defined THEN configuredSecret.value
                               ELSE "")
\* route.ts 455-457: Boolean(configuredSecret && internalSecret ===
\* configuredSecret); request.headers.get gives null for a header that was
\* not sent, process.env gives undefined for a variable that is not set
isInternalCall(configuredSecret, internalSecret) ==
    /\ configuredSecret.defined
    /\ configuredSecret.value # ""
    /\ internalSecret.defined
    /\ internalSecret.value = configuredSecret.value

\* route.ts 469-478: the answer 401; nothing has been written
Unauthorized(r, d) ==
    /\ Assignable(r)
    /\ run' = [run EXCEPT ![r] = Answered([IdleRun EXCEPT !.doc = d], "unauthorized")]
    /\ UNCHANGED <<file, nova_documents, transaction_summaries, ai_analyses,
                   insights, goals, startsOf, summariesAtStart>>

\* route.ts 451-580: a request for the document d, with the force flag, the
\* header x-internal-secret, the configured secret and the user of the
\* session (none, the owner u1 or another user)
Post(r, d, forceReprocess, configuredSecret, internalSecret, user, outcome) ==
    /\ request' = [doc |-> d, forceReprocess |-> forceReprocess,
                   configuredSecret |-> configuredSecret,
                   internalSecret |-> internalSecret, user |-> user]
    /\ IF ~isInternalCall(configuredSecret, internalSecret)
          /\ (user = "none" \/ user # UserOf(d))
       THEN Unauthorized(r, d)
       ELSE IF ShortCircuit(d, forceReprocess) THEN AlreadyProcessed(r, d)
       ELSE Begin(r, d, forceReprocess, "ok", outcome)

\* one request at a time, from any sender; storage, configuration, the
\* database and the AI service are sound
AuthNext ==
    /\ \/ \E d \in DocIds, forceReprocess \in BOOLEAN,
             configuredSecret \in {[defined |-> FALSE],
                                   [defined |-> TRUE, value |-> ""],
                                   [defined |-> TRUE, value |-> "service-role-key"]},
             internalSecret \in {[defined |-> FALSE],
                                 [defined |-> TRUE, value |-> ""],
                                 [defined |-> TRUE, value |-> "service-role-key"]},
             user \in {"none", "u1", "u2"} :
             \E outcome \in IF file[d].pdf /\ file[d].hasText
                            THEN LLMOutcomes ELSE {NoLLM} :
                Post("r1", d, forceReprocess, configuredSecret, internalSecret,
                     user, outcome)
       \/ /\ \/ ReadExisting("r1", FALSE)
             \/ \E mergedRow \in run["r1"].pending : Upsert("r1", mergedRow)
             \/ Finish("r1", AllAnswer, "none")
             \/ Complete("r1", FALSE)
             \/ Catch("r1", FALSE)
          /\ UNCHANGED request
    /\ UNCHANGED <<batch, call>>
    /\ UNCHANGED limiterVars

SpecAuth == LibInit /\ [][AuthNext]_vars

\* ===================================================== properties
TaggedWith(transactions, documentId) ==
    SelectSeq(transactions, LAMBDA tx: tx.source_document_id = documentId)
NotTaggedWith(transactions, documentId) ==
    SelectSeq(transactions, LAMBDA tx: tx.source_document_id # documentId)
InFlight(r) == run[r].pc \notin {"idle", "returned"}

\* route.ts 614-649 run to its end on `table`: every merged row upserted
RECURSIVE UpsertAll(_, _)
UpsertAll(table, rows) ==
    IF rows = {} THEN table
    ELSE LET mergedRow == CHOOSE row \in rows : TRUE
         IN  UpsertAll(upsert(table, mergedRow), rows \ {mergedRow})
MergeRun(table, documentId, transactions) ==
    UpsertAll(table, monthRowsToUpsert(table, documentId, transactions))

AffectedRows(table, documentId, transactions) ==
    {row \in table : /\ row.user_id = UserOf(documentId)
                     /\ row.summary_month \in DOMAIN groupTransactionsByMonth(transactions)}

\* C1: idempotent reprocessing.  Whatever the stored summaries, the document
\* and the parsed transaction set a run is about to merge, running the merge
\* (read the rows, build the merged rows, upsert them) a second time with the
\* same set leaves the rows of the affected months, and the whole table,
\* exactly as the first run left them.
C1_IdempotentReprocessing ==
    \A r \in Runs :
        run[r].pc = "merge" =>
            \A d \in {run[r].doc}, transactions \in {run[r].parse.transactions} :
                LET once  == MergeRun(transaction_summaries, d, transactions)
                    twice == MergeRun(once, d, transactions)
                IN  /\ AffectedRows(twice, d, transactions)
                          = AffectedRows(once, d, transactions)
                    /\ AffectedRows(once, d, transactions) # {}
                    /\ twice = once

\* a second run of a document has upserted all its rows over what the first
\* run left, and the table is as it was when the second run started
C1_Witness ==
    /\ run["r1"].pc = "analyze"
    /\ startsOf[run["r1"].doc] = 2
    /\ transaction_summaries = summariesAtStart
    /\ \E row \in transaction_summaries :
          TaggedWith(row.all_transactions, run["r1"].doc) # <<>>

\* C2: full replacement.  When a run of document D completes, in every row of
\* the user the transactions tagged D are exactly the newly parsed
\* transactions of the row's month (none when the new parse has no
\* transaction in that month).
C2_FullReplacement ==
    \A r \in Runs :
        run[r].pc = "complete" =>
            LET d == run[r].doc
                transactionsByMonth ==
                    buildTransactionsByMonth(run[r].parse.transactions, d)
            IN  \A row \in transaction_summaries :
                    row.user_id = UserOf(d) =>
                        TaggedWith(row.all_transactions, d) =
                            IF row.summary_month \in DOMAIN transactionsByMonth
                            THEN transactionsByMonth[row.summary_month]
                            ELSE <<>>

\* C3: the merge changes only the contribution of D.  In every row the
\* handler builds from the rows it read, the transactions tagged with another
\* document are those of the stored row, unchanged and in their order, and
\* the transactions tagged D are the incoming transactions of the month.
C3_MergeChangesOnlyOwn ==
    [][\A r \in Runs :
          (run[r].pc = "merge" /\ run'[r].pc = "upsert") =>
              \A mergedRow \in run'[r].pending :
                  LET d == run[r].doc
                      existing == ExistingTransactions(transaction_summaries,
                                      UserOf(d), mergedRow.summary_month)
                      incoming == buildTransactionsByMonth(
                                      run[r].parse.transactions, d)[mergedRow.summary_month]
                  IN  /\ NotTaggedWith(mergedRow.all_transactions, d)
                            = NotTaggedWith(existing, d)
                      /\ TaggedWith(mergedRow.all_transactions, d) = incoming
                      /\ incoming # <<>>]_vars

\* a merged row that holds transactions of another document next to those of
\* the document being processed, which replace its earlier ones
C3_Witness ==
    \E r \in Runs :
        /\ run[r].pc = "upsert"
        /\ \E mergedRow \in run[r].pending :
              /\ TaggedWith(mergedRow.all_transactions, run[r].doc) # <<>>
              /\ NotTaggedWith(mergedRow.all_transactions, run[r].doc) # <<>>

\* C4: a failed run leaves the summaries untouched.  When the handler has
\* answered with the document marked failed, transaction_summaries is what it
\* was when the run started.
C4_FailedRunLeavesSummaries ==
    (run["r1"].pc = "returned" /\ run["r1"].response = "error") =>
        transaction_summaries = summariesAtStart

\* the transactions tagged with a document over all the rows of a table
RECURSIVE TaggedInTable(_, _)
TaggedInTable(table, documentId) ==
    IF table = {} THEN <<>>
    ELSE LET row == CHOOSE x \in table : TRUE
         IN  TaggedWith(row.all_transactions, documentId)
             \o TaggedInTable(table \ {row}, documentId)

\* C5: no lost update.  When two runs, one per document, have both completed
\* and nothing is in flight, the rows hold every transaction either run
\* parsed: tagged with each document, as many transactions as its run
\* counted, with the income its run totalled.
C5_NoLostUpdate ==
    (/\ \A d \in DocIds : /\ startsOf[d] = 1
                          /\ nova_documents[d].processing_status = "completed"
     /\ \A r \in Runs : ~InFlight(r) /\ run[r].pending = {})
    => \A d \in DocIds :
          LET tagged == TaggedInTable(transaction_summaries, d)
              income == SelectSeq(tagged, LAMBDA tx: tx.amount > 0)
          IN  /\ Len(tagged) = nova_documents[d].transaction_count
              /\ SeqSum([i \in 1..Len(income) |-> income[i].amount])
                    = nova_documents[d].total_income

\* C6: aggregate consistency.  In every row of transaction_summaries,
\* total_income is the sum of the positive amounts of all_transactions,
\* total_expenses the sum of the absolute values of the other amounts, and
\* income_count + expense_count the number of entries of all_transactions.
C6_AggregateConsistency ==
    \A row \in transaction_summaries :
        LET positive == SelectSeq(row.all_transactions, LAMBDA tx: tx.amount > 0)
            nonPositive == SelectSeq(row.all_transactions, LAMBDA tx: tx.amount <= 0)
        IN  /\ row.total_income
                  = SeqSum([i \in 1..Len(positive) |-> positive[i].amount])
            /\ row.total_expenses
                  = SeqSum([i \in 1..Len(nonPositive) |-> Abs(nonPositive[i].amount)])
            /\ row.income_count + row.expense_count = Len(row.all_transactions)

\* a row merged from two documents, with an income and an expense whose raw
\* amount was rounded
C6_Witness ==
    \E row \in transaction_summaries :
        /\ \A d \in DocIds : TaggedWith(row.all_transactions, d) # <<>>
        /\ row.income_count > 0
        /\ row.total_expenses = roundMoney(Abs(tRent.amount))
        /\ roundMoney(tRent.amount) # tRent.amount

\* C7: at most one row per (user, month).  Two rows of transaction_summaries
\* with the same user_id and summary_month are the same row.
C7_OneRowPerUserMonth ==
    \A row, other \in transaction_summaries :
        (row.user_id = other.user_id /\ row.summary_month = other.summary_month)
            => row = other

\* a run has updated the row another run inserted: the row of the month
\* holds transactions of both documents, next to the row of another month
C7_Witness ==
    /\ Cardinality(transaction_summaries) >= 2
    /\ \E row \in transaction_summaries :
          \A d \in DocIds : TaggedWith(row.all_transactions, d) # <<>>

\* the run of a PDF that has reached the choice of route.ts 558
ChosePdfExtractor(r) ==
    InFlight(r) /\ run[r].extractor \in {"llm", "heuristic"}

\* C8: fallback to the heuristic extractor.  In the run of a PDF, when the
\* extraction by the completion service threw or returned no transaction,
\* the parse result is that of parseBankStatement on the file; the rows of
\* the completion service are used only when there is at least one.
C8_HeuristicFallback ==
    \A r \in Runs :
        ChosePdfExtractor(r) =>
            /\ (run[r].llm.threw \/ Len(run[r].llm.rows) = 0) =>
                   /\ run[r].extractor = "heuristic"
                   /\ run[r].parse = DeterministicParse(file[run[r].doc])
            /\ run[r].extractor = "llm" =>
                   /\ ~run[r].llm.threw
                   /\ Len(run[r].llm.rows) >= 1
                   /\ run[r].parse = buildParseResultFromTransactions(
                                         llmTransactionsOf(run[r].llm.rows))

\* the extraction threw and the run goes on with the rows of the parser
C8_Witness ==
    \E r \in Runs :
        /\ run[r].pc = "merge"
        /\ run[r].llm.threw
        /\ run[r].extractor = "heuristic"
        /\ run[r].parse.ok
        /\ Len(run[r].parse.transactions) = 2

\* C9: no valid transactions.  The run of a PDF fails for lack of valid
\* transactions only if the rows parseBankStatement reads in the file leave
\* nothing after sanitization.
C9_FailsOnlyWithoutUsableRows ==
    \A r \in Runs :
        (run[r].pc = "catch" /\ run[r].error = "no_valid" /\ file[run[r].doc].pdf)
            => ~DeterministicParse(file[run[r].doc]).ok

\* every call the run made to the completion service failed: the extraction
\* (made for a PDF with text only) and the three stages, when reached
EveryCallFailed(r) ==
    /\ (file[run[r].doc].pdf /\ file[run[r].doc].hasText) => run[r].llm.failed
    /\ run[r].ai \in {AllThrow, NoAI}

C11_PerItemIsolation ==
    batch.pc = "returned" =>
        LET items == batch.items
            resolved == SelectSeq(items, LAMBDA item: item.succeeds)
            failing == {k \in 1..Len(items) : ~items[k].succeeds}
        IN  /\ \A k \in 1..Len(items) : batch.runs[k] = 1
            /\ batch.output = [k \in 1..Len(resolved) |-> resolved[k].value]
            /\ Len(batch.errors) = Cardinality(failing)
            /\ {batch.errors[k].index : k \in 1..Len(batch.errors)}
                  = {k - 1 : k \in failing}
            /\ \A j, k \in 1..Len(batch.errors) :
                  j < k => batch.errors[j].index < batch.errors[k].index

\* a run of three items in batches of two: the first item rejects, and both
\* its batch neighbour and the item of the next batch are in the output
C11_Witness ==
    /\ batch.pc = "returned"
    /\ Len(batch.items) = 3
    /\ batch.size = 2
    /\ ~batch.items[1].succeeds
    /\ batch.items[2].succeeds
    /\ batch.items[3].succeeds
    /\ batch.output = <<batch.items[2].value, batch.items[3].value>>
    /\ batch.errors = <<[index |-> 0]>>

\* occurrences of a key among transactions
CountOfKey(transactions, key) ==
    Cardinality({i \in 1..Len(transactions) :
                    buildPdfTransactionKey(transactions[i]) = key})

\* C12: for every transaction key, the number of transactions with that key
\* in the output of mergePdfStrategies is the maximum of the key's occurrence
\* counts over the input strategies, not their sum.
C12_MergeKeepsMaxCount ==
    call.fn = "mergePdfStrategies" =>
        \A tx \in PdfTransactions :
            LET key == buildPdfTransactionKey(tx)
                counts == {CountOfKey(call.strategies[s], key) :
                              s \in 1..Len(call.strategies)}
            IN  CountOfKey(call.result, key)
                    = CHOOSE m \in counts : \A n \in counts : n <= m

\* the strategies find one transaction twice, once and never: it is kept twice
C12_Witness ==
    /\ call.fn = "mergePdfStrategies"
    /\ call.strategies = <<(<<tCafe, tCafe>>), (<<tCafe>>), (<<>>)>>
    /\ call.result = <<tCafe, tCafe>>

\* occurrences of a transaction (date, description, amount, category)
CountOf(transactions, tx) ==
    Cardinality({i \in 1..Len(transactions) : transactions[i] = tx})

\* C13: every permutation of the list of strategies gives the same merged
\* multiset of transactions as the list itself.
C13_MergeOrderIndependent ==
    call.fn = "mergePdfStrategies" =>
        LET n == Len(call.strategies)
            orders == {p \in [1..n -> 1..n] : \A i, j \in 1..n : p[i] = p[j] => i = j}
        IN  \A p \in orders :
                LET permuted == [i \in 1..n |-> call.strategies[p[i]]]
                IN  \A tx \in PdfTransactions :
                        CountOf(mergePdfStrategies(permuted), tx)
                            = CountOf(call.result, tx)

\* a parenthesis in an amount text
HasParenthesis(text) == \E i \in 1..Len(text) : text[i] = "("

\* C15: an amount text that carries both a parenthesis and a CR token parses
\* to the positive magnitude of its numeral: the CR marker wins.
C15_CrWinsOverParenthesis ==
    (/\ call.fn = "parseAmount"
     /\ HasParenthesis(call.value)
     /\ testToken(call.value, <<"c", "r">>))
        => call.result.ok /\ call.result.value > 0

\* C16: "($1,250.00)" parses to -1250.00, "500.00 CR" to 500.00 and
\* "500.00 DR" to -500.00, and none of the three fails.
C16_SignRoundTrip ==
    call.fn = "parseAmount" =>
        /\ call.value = <<"(", "$", "1", ",", "2", "5", "0", ".", "0", "0", ")">>
              => call.result = [ok |-> TRUE, value |-> -(1250 * UNIT)]
        /\ call.value = <<"5", "0", "0", ".", "0", "0", " ", "C", "R">>
              => call.result = [ok |-> TRUE, value |-> 500 * UNIT]
        /\ call.value = <<"5", "0", "0", ".", "0", "0", " ", "D", "R">>
              => call.result = [ok |-> TRUE, value |-> -(500 * UNIT)]

\* the category enum of the glossary
CategoryEnum ==
    {"income_salary", "income_investment", "income_other", "housing",
     "groceries", "dining", "transportation", "subscriptions", "healthcare",
     "insurance", "education", "other"}
IncomeCategories == {"income_salary", "income_investment", "income_other"}

\* C20: classifyCategory returns, for an amount above 0, income_salary when
\* the lower-cased description contains payroll, salary or wage, else
\* income_investment when it contains interest or dividend, else income_other;
\* for any other amount the first of transportation, housing, groceries,
\* dining, subscriptions, healthcare, insurance, education with a keyword in
\* the description, else other.  The result is in the category enum, an
\* income category exactly when the amount is above 0.
C20_ClassifyFirstMatch ==
    call.fn = "classifyCategory" =>
        LET desc == toLowerCase(call.description)
            Has(word) == includes(desc, word)
            salary == Has(<<"p", "a", "y", "r", "o", "l", "l">>)
                          \/ Has(<<"s", "a", "l", "a", "r", "y">>)
                          \/ Has(<<"w", "a", "g", "e">>)
            investment == Has(<<"i", "n", "t", "e", "r", "e", "s", "t">>)
                          \/ Has(<<"d", "i", "v", "i", "d", "e", "n", "d">>)
            transportation == Has(<<"u", "b", "e", "r">>)
                          \/ Has(<<"l", "y", "f", "t">>)
                          \/ Has(<<"g", "a", "s">>)
                          \/ Has(<<"s", "h", "e", "l", "l">>)
                          \/ Has(<<"c", "h", "e", "v", "r", "o", "n">>)
            housing == Has(<<"r", "e", "n", "t">>)
                          \/ Has(<<"m", "o", "r", "t", "g", "a", "g", "e">>)
            groceries == Has(<<"w", "a", "l", "m", "a", "r", "t">>)
                          \/ Has(<<"c", "o", "s", "t", "c", "o">>)
                          \/ Has(<<"t", "a", "r", "g", "e", "t">>)
                          \/ Has(<<"w", "h", "o", "l", "e", " ", "f", "o", "o", "d", "s">>)
                          \/ Has(<<"t", "r", "a", "d", "e", "r", " ", "j", "o", "e">>)
            dining == Has(<<"r", "e", "s", "t", "a", "u", "r", "a", "n", "t">>)
                          \/ Has(<<"d", "o", "o", "r", "d", "a", "s", "h">>)
                          \/ Has(<<"g", "r", "u", "b", "h", "u", "b">>)
                          \/ Has(<<"c", "o", "f", "f", "e", "e">>)
                          \/ Has(<<"c", "a", "f", "e">>)
            subscriptions == Has(<<"n", "e", "t", "f", "l", "i", "x">>)
                          \/ Has(<<"s", "p", "o", "t", "i", "f", "y">>)
                          \/ Has(<<"h", "u", "l", "u">>)
                          \/ Has(<<"p", "r", "i", "m", "e">>)
            healthcare == Has(<<"h", "o", "s", "p", "i", "t", "a", "l">>)
                          \/ Has(<<"c", "l", "i", "n", "i", "c">>)
                          \/ Has(<<"p", "h", "a", "r", "m", "a", "c", "y">>)
            insurance == Has(<<"i", "n", "s", "u", "r", "a", "n", "c", "e">>)
            education == Has(<<"t", "u", "i", "t", "i", "o", "n">>)
                          \/ Has(<<"s", "t", "u", "d", "e", "n", "t", " ", "l", "o", "a", "n">>)
            expected ==
                IF call.amount > 0
                THEN (IF salary THEN "income_salary"
                      ELSE IF investment THEN "income_investment"
                      ELSE "income_other")
                ELSE (IF transportation THEN "transportation"
                      ELSE IF housing THEN "housing"
                      ELSE IF groceries THEN "groceries"
                      ELSE IF dining THEN "dining"
                      ELSE IF subscriptions THEN "subscriptions"
                      ELSE IF healthcare THEN "healthcare"
                      ELSE IF insurance THEN "insurance"
                      ELSE IF education THEN "education"
                      ELSE "other")
        IN  /\ call.result = expected
            /\ call.result \in CategoryEnum
            /\ (call.amount > 0) <=> (call.result \in IncomeCategories)

\* a negative amount whose description holds a keyword of two expense
\* categories gets the earlier one, whatever the order of the words
C20_Witness ==
    /\ call.fn = "classifyCategory"
    /\ call.description = <<"m", "o", "r", "t", "g", "a", "g", "e", " ", "U", "b", "e", "r">>
    /\ call.amount < 0
    /\ call.result = "transportation"

\* the data lines of a CSV text that have as many fields as the header
FullLines(text) ==
    SelectSeq(text.lines, LAMBDA line : Len(line) = Len(text.header))
\* the transaction a full line stands for: its date cell is a date, its
\* description is not blank and its amount cell is a number
WellFormed(text, line) ==
    rowToTransaction([fields |-> text.header, cells |-> line]).kind = "transaction"
TransactionOf(text, line) ==
    rowToTransaction([fields |-> text.header, cells |-> line]).tx
BadCell(line) ==
    Len(line) = 3 /\ (~normalizeDate(line[1]).ok \/ ~parseAmount(line[3]).ok)

\* C14: a CSV text whose lines all have the header's number of fields, one
\* of them with an unparseable amount or date cell, is parsed without
\* failure: that line is dropped and the transactions of the well-formed
\* lines are returned in their order.
C14_RowErrorsNotFatal ==
    (/\ call.fn = "parseCsvTransactions"
     /\ FullLines(call.text) = call.text.lines
     /\ \E k \in 1..Len(call.text.lines) : BadCell(call.text.lines[k]))
        => LET good == SelectSeq(call.text.lines,
                                 LAMBDA line : WellFormed(call.text, line))
           IN  /\ call.result.ok
               /\ call.result.transactions
                     = [k \in 1..Len(good) |-> TransactionOf(call.text, good[k])]

\* C17: a CSV text with header Date,Description,Amount in which a data line
\* lacks its description, the other lines being well formed, parses to the
\* transactions of the other lines, with totalIncome the sum of their
\* positive amounts, totalExpenses the sum of the magnitudes of their
\* negative amounts and dateRange from their earliest to their latest date.
C17_ShortRowDropped ==
    (/\ call.fn = "parseBankStatement"
     /\ call.statement.kind = "csv"
     /\ \E k \in 1..Len(call.statement.text.lines) :
           call.statement.text.lines[k] = lineShort
     /\ FullLines(call.statement.text) # <<>>
     /\ \A k \in 1..Len(call.statement.text.lines) :
           \/ call.statement.text.lines[k] = lineShort
           \/ WellFormed(call.statement.text, call.statement.text.lines[k]))
        => LET text == call.statement.text
               good == FullLines(text)
               txs == [k \in 1..Len(good) |-> TransactionOf(text, good[k])]
               dates == {txs[k].date : k \in 1..Len(txs)}
           IN  /\ call.result.ok
               /\ Len(call.result.transactions) = Len(txs)
               /\ \A k \in 1..Len(txs) :
                     CountOf(call.result.transactions, txs[k]) = CountOf(txs, txs[k])
               /\ call.result.totalIncome
                     = SeqSum([k \in 1..Len(txs) |-> Max(txs[k].amount, 0)])
               /\ call.result.totalExpenses
                     = SeqSum([k \in 1..Len(txs) |-> Max(-txs[k].amount, 0)])
               /\ call.result.dateRange.start
                     = CHOOSE d \in dates : \A e \in dates : d <= e
               /\ call.result.dateRange.end
                     = CHOOSE d \in dates : \A e \in dates : e <= d

\* the statements in which no valid row is read
NoValidRow(statement) ==
    \/ /\ statement.kind = "csv"
       /\ \A k \in 1..Len(statement.text.lines) :
             ~WellFormed(statement.text, statement.text.lines[k])
    \/ statement.kind = "excel" /\ statement.transactions = <<>>
    \/ /\ statement.kind = "pdf"
       /\ \A s \in 1..Len(statement.strategies) : statement.strategies[s] = <<>>

\* C18: parseBankStatement fails on a statement with no valid row (a CSV of
\* its header only), and a ParseResult it returns has transactions, sorted
\* ascending by date, with dateRange.start the first date and dateRange.end
\* the last, so that start <= end.
C18_ParseResultInvariant ==
    call.fn = "parseBankStatement" =>
        /\ NoValidRow(call.statement) => ~call.result.ok
        /\ call.result.ok =>
              LET txs == call.result.transactions
              IN  /\ Len(txs) > 0
                  /\ \A i, j \in 1..Len(txs) : i < j => txs[i].date <= txs[j].date
                  /\ call.result.dateRange.start = txs[1].date
                  /\ call.result.dateRange.end = txs[Len(txs)].date
                  /\ call.result.dateRange.start <= call.result.dateRange.end

\* a CSV whose later line has the earlier date: the result is in date order
C18_Witness ==
    /\ call.fn = "parseBankStatement"
    /\ call.statement.kind = "csv"
    /\ call.statement.text.lines = <<linePayroll, lineGrocery>>
    /\ call.result.ok
    /\ Len(call.result.transactions) = 2
    /\ call.result.transactions[1].date = 20240105
    /\ call.result.dateRange = [start |-> 20240105, end |-> 20240115]
    /\ call.result.totalIncome = 2000 * UNIT
    /\ call.result.totalExpenses = 54 * UNIT + 32 * CENT

\* the checks of the sanitize step on a candidate row
Storable(tx) ==
    /\ isIsoDate(tx.date)
    /\ Trim(tx.description) # <<>>
    /\ tx.amount # NotANumber
    /\ Abs(tx.amount) >= CENT
    /\ Abs(tx.amount) <= getMaxTransactionAbs

\* C19: the sanitize step keeps a candidate row if and only if its date is of
\* ISO shape, its trimmed description is not empty and its amount is finite
\* with 0.01 <= |amount| <= ceiling; the kept rows keep their relative order;
\* the step fails only when no row is kept; and every transaction of the
\* rows then stored satisfies these checks.
C19_SanitizeFilter ==
    call.fn = "sanitizeTransactionsForStorage" =>
        LET expected == SelectSeq(call.transactions, Storable)
        IN  /\ Len(call.sanitized) = Len(expected)
            /\ \A k \in 1..Len(expected) :
                  /\ call.sanitized[k].date = expected[k].date
                  /\ call.sanitized[k].description = Trim(expected[k].description)
                  /\ Abs(call.sanitized[k].amount - expected[k].amount) < CENT
            /\ call.result.ok <=> expected # <<>>
            /\ call.result.ok => Len(call.result.transactions) = Len(expected)
            /\ \A row \in call.stored :
                  \A k \in 1..Len(row.all_transactions) :
                      Storable(row.all_transactions[k])
            /\ \A k \in 1..Len(call.sanitized) :
                  \E row \in call.stored :
                      \E j \in 1..Len(row.all_transactions) :
                          /\ row.all_transactions[j].date = call.sanitized[k].date
                          /\ row.all_transactions[j].description
                                = call.sanitized[k].description
                          /\ row.all_transactions[j].amount = call.sanitized[k].amount

\* a row below the smallest magnitude after a row that is kept: it is
\* dropped, the other is kept, rounded and stored
C19_Witness ==
    /\ call.fn = "sanitizeTransactionsForStorage"
    /\ call.transactions = <<tRent, tTiny>>
    /\ Len(call.sanitized) = 1
    /\ call.sanitized[1].date = tRent.date
    /\ call.sanitized[1].amount = -(2 * UNIT)
    /\ call.result.ok
    /\ \E row \in call.stored : Len(row.all_transactions) = 1
\* ---------------------------------------------------------------- C21
\* the expenses of a list under one merchant key
BucketOf(transactions, name) ==
    SelectSeq(transactions,
              LAMBDA tx : ~(tx.amount > 0) /\ MerchantKey(tx.description) = name)
BucketAmount(transactions, name) ==
    SeqSum([i \in 1..Len(BucketOf(transactions, name)) |->
               Abs(BucketOf(transactions, name)[i].amount)])
\* a top_merchants list of a transaction list: at most `limit` entries, sorted
\* by amount descending, one entry per bucket of the first 50 characters of
\* the description, no bucket left out above an entry
BoundedTopMerchants(transactions, top, limit) ==
    /\ Len(top) <= limit
    /\ \A i \in 1..(Len(top) - 1) : top[i].amount >= top[i + 1].amount
    /\ \A i, j \in 1..Len(top) : top[i].name = top[j].name => i = j
    /\ \A i \in 1..Len(top) :
          /\ Len(top[i].name) <= 50
          /\ top[i].count = Len(BucketOf(transactions, top[i].name))
          /\ top[i].count > 0
          /\ top[i].amount = BucketAmount(transactions, top[i].name)
    /\ \A k \in 1..Len(transactions) :
          ~(transactions[k].amount > 0) =>
              LET name == SubSeq(transactions[k].description, 1,
                                 Min(50, Len(transactions[k].description)))
              IN  \/ \E i \in 1..Len(top) : top[i].name = name
                  \/ \A i \in 1..Len(top) :
                        BucketAmount(transactions, name) <= top[i].amount

\* C21: for any transaction list the top_merchants of a month has at most 10
\* entries in the recomputation of the merge and at most 5 in the per-file
\* aggregator, is sorted by amount descending, groups the expenses by the
\* first 50 characters of the description, and leaves out no merchant bucket
\* with a larger amount than one it includes.
C21_TopMerchantsBound ==
    call.fn = "summarizeTransactions" =>
        /\ BoundedTopMerchants(call.transactions, call.summary.top_merchants, 10)
        /\ \A month \in DOMAIN call.byMonth :
              BoundedTopMerchants(
                  SelectSeq(call.transactions, LAMBDA tx : MonthOf(tx.date) = month),
                  call.byMonth[month].top_merchants, 5)
\* ---------------------------------------------------------------- C22
\* C22: the processing status of a document is always one of pending,
\* processing, completed, failed; a run that set the status to processing has
\* set it to completed or failed when the handler returns; and it sets
\* completed only after the rows of all the months of its parse result have
\* been upserted.
C22_StatusLifecycle ==
    [][/\ \A d \in DocIds :
             nova_documents'[d].processing_status
                 \in {"pending", "processing", "completed", "failed"}
       /\ \A r \in Runs :
             LET d == run[r].doc
             IN  /\ (run[r].pc \in {"complete", "catch"} /\ run'[r].pc = "returned")
                        => nova_documents'[d].processing_status
                               \in {"completed", "failed"}
                 /\ (/\ run[r].pc = "complete"
                     /\ nova_documents[d].processing_status # "completed"
                     /\ nova_documents'[d].processing_status = "completed")
                        => /\ run[r].pending = {}
                           /\ \A month \in DOMAIN buildTransactionsByMonth(
                                                     run[r].parse.transactions, d) :
                                 \E row \in transaction_summaries :
                                    /\ row.user_id = UserOf(d)
                                    /\ row.summary_month = month
      ]_vars
\* ---------------------------------------------------------------- C23
\* what the numeral cells of the model are worth: 50.00, (20.00), 0.00
CellValue(cell) ==
    IF cell = <<"5", "0", ".", "0", "0">> THEN 50 * UNIT
    ELSE IF cell = <<"(", "2", "0", ".", "0", "0", ")">> THEN -(20 * UNIT)
    ELSE 0
IsBlankCell(cell) == \A i \in 1..Len(cell) : cell[i] = " "
IsNumeralCell(cell) == ~IsBlankCell(cell) /\ cell # <<"a", "b", "c">>

\* C23: the amount of a tabular row is the parsed value of its amount column
\* when that column is not empty; otherwise, with debit and credit taken as
\* magnitudes, it is credit - debit when both are positive, +credit when
\* only credit is positive, -debit when only debit is positive, and the row
\* has no amount and is dropped when neither is positive.  (Cells that are
\* present are numerals here; a cell that is no numeral is the case of C14.)
C23_AmountResolution ==
    call.fn = "rowToTransaction" =>
        LET amount == call.row.cells[3]
            debit == Abs(CellValue(call.row.cells[4]))
            credit == Abs(CellValue(call.row.cells[5]))
        IN  /\ IsNumeralCell(amount) =>
                  /\ call.amount = [kind |-> "value", value |-> CellValue(amount)]
                  /\ call.transaction.kind = "transaction"
                  /\ call.transaction.tx.amount = CellValue(amount)
            /\ (/\ IsBlankCell(amount)
                /\ call.row.cells[4] # <<"a", "b", "c">>
                /\ call.row.cells[5] # <<"a", "b", "c">>) =>
                  /\ (credit > 0 /\ debit > 0) =>
                        call.amount = [kind |-> "value", value |-> credit - debit]
                  /\ (credit > 0 /\ debit = 0) =>
                        call.amount = [kind |-> "value", value |-> credit]
                  /\ (credit = 0 /\ debit > 0) =>
                        call.amount = [kind |-> "value", value |-> -debit]
                  /\ (credit = 0 /\ debit = 0) =>
                        /\ call.amount = [kind |-> "null"]
                        /\ call.transaction = [kind |-> "null"]
                        /\ ~call.result.ok
                  /\ (credit > 0 \/ debit > 0) =>
                        /\ call.transaction.kind = "transaction"
                        /\ call.transaction.tx.amount = call.amount.value

\* a row with no amount, a debit of 50.00 and a credit of (20.00): -30.00
C23_Witness ==
    /\ call.fn = "rowToTransaction"
    /\ IsBlankCell(call.row.cells[3])
    /\ call.row.cells[4] = <<"5", "0", ".", "0", "0">>
    /\ call.row.cells[5] = <<"(", "2", "0", ".", "0", "0", ")">>
    /\ call.amount = [kind |-> "value", value |-> -(30 * UNIT)]
    /\ call.transaction.kind = "transaction"

\* ---------------------------------------------------------------- C24
\* C24: every transaction of a ParseResult returned by the parser has an
\* amount other than 0, whatever the amount, debit and credit cells are.
C24_NoZeroAmount ==
    (call.fn \in {"rowToTransaction", "parseBankStatement"} /\ call.result.ok) =>
        \A i \in 1..Len(call.result.transactions) :
            call.result.transactions[i].amount # 0

\* C25: the header-less fallback of the tabular extractor.  When no row under
\* the header makes the call throw, parseRowsToTransactions returns the
\* transactions of the header-based reading whenever there is at least one,
\* and the parseSimpleRow reading of the rows exactly when the header-based
\* reading gives none, never the two together; every transaction of the
\* fallback has the date of its row's first cell, the magnitude of the
\* right-most amount-looking cell and a non-empty description made of the
\* cells between them.
FilledCells(row) ==
    SelectSeq([i \in 1..Len(row) |-> Trim(row[i])], LAMBDA cell : cell # <<>>)
FromPlainRow(tx, cells) ==
    /\ Len(cells) >= 3
    /\ normalizeDate(cells[1]).ok
    /\ tx.date = normalizeDate(cells[1]).date
    /\ tx.description # <<>>
    /\ \E idx \in 2..Len(cells) :
          /\ looksLikeAmountToken(cells[idx])
          /\ \A later \in (idx + 1)..Len(cells) : ~looksLikeAmountToken(cells[later])
          /\ parseAmount(cells[idx]).ok
          /\ Abs(tx.amount) = Abs(parseAmount(cells[idx]).value)
          /\ idx >= 3
          /\ SubSeq(tx.description, 1, Len(cells[2])) = cells[2]
          /\ SubSeq(tx.description,
                    Len(tx.description) - Len(cells[idx - 1]) + 1,
                    Len(tx.description)) = cells[idx - 1]
FallbackOnly(rows, header, simple, result) ==
    header.ok =>
        /\ result.ok
        /\ Len(header.transactions) > 0 => result.transactions = header.transactions
        /\ Len(header.transactions) = 0
              => /\ result.transactions = simple
                 /\ \A k \in 1..Len(result.transactions) :
                       \E index \in 1..Len(rows) :
                          FromPlainRow(result.transactions[k], FilledCells(rows[index]))
C25_HeaderlessFallback ==
    call.fn = "parseRowsToTransactions" =>
        FallbackOnly(call.rows, headerTransactions(call.rows),
                     simpleTransactions(call.rows), call.result)
\* a sheet with a header row but no amount column, read by the fallback: the
\* listing row with a balance gives the right-most numeral as a debit, the
\* payroll row a credit
C25_Witness ==
    /\ call.fn = "parseRowsToTransactions"
    /\ Len(call.rows) = 3
    /\ findHeaderRowIndex(call.rows) = 1
    /\ call.result.ok
    /\ Len(call.result.transactions) = 2
    /\ \E k \in 1..2 :
          /\ call.result.transactions[k].amount = -(100 * UNIT)
          /\ call.result.transactions[k].description
               = <<"U", "b", "e", "r", " ", "1", "2", ".", "0", "0">>
    /\ \E k \in 1..2 : call.result.transactions[k].amount = 1500 * UNIT

\* C26: bounded parallelism.  While runInBatches runs, the runner invocations
\* in flight are never more than the concurrency it was called with, and a
\* batch is dispatched only when every item before it has settled and been
\* recorded and no item after it has started; the concurrency is the
\* configured value floored and kept between 1 and the maximum of the caller
\* (20 for chunk extraction, 12 for name cleanup), and the default (6 for
\* chunk extraction, 4 for name cleanup) when the variable is missing, is not
\* a finite number or is not positive.
InFlightRunners ==
    Cardinality({k \in 1..Len(batch.settled) : batch.settled[k].status = "pending"})
EffectiveConcurrency(configured, default, max) ==
    IF ~configured.defined THEN default
    ELSE IF NumberOf(configured.value).nan THEN default
    ELSE IF NumberOf(configured.value).value <= 0 THEN default
    ELSE LET floor == NumberOf(configured.value).value \div UNIT
         IN  IF floor < 1 THEN 1 ELSE IF floor > max THEN max ELSE floor
C26_BoundedParallelism ==
    /\ batch.pc # "idle" =>
          /\ InFlightRunners <= batch.concurrency
          /\ batch.pc = "awaiting" =>
                /\ Len(batch.output) + Len(batch.errors) = batch.index
                /\ \A k \in 1..Len(batch.items) :
                      batch.runs[k] = IF k <= batch.index + Len(batch.settled)
                                      THEN 1 ELSE 0
    /\ call.fn = "getParallelism" =>
          /\ call.caller = "extractTransactionsFromPDFChunks"
                => call.concurrency = EffectiveConcurrency(call.configured, 6, 20)
          /\ call.caller = "cleanTransactionNamesWithLLM"
                => call.concurrency = EffectiveConcurrency(call.configured, 4, 12)
\* three chunks with a concurrency of 2 (the variable set to 2.9): the third
\* chunk has not started while the two of the first batch are in flight
C26_Witness ==
    /\ batch.pc = "awaiting"
    /\ batch.concurrency = 2
    /\ batch.concurrency = getParallelism([defined |-> TRUE,
                                           value |-> <<"2", ".", "9">>], 6, 20)
    /\ Len(batch.items) = 3
    /\ InFlightRunners = 2
    /\ batch.runs = <<1, 1, 0>>

\* C27: API rate limiting.  For every client IP, no more than 30 of its
\* requests are passed on within any span of less than 10,000 ms; a request
\* is answered 429 exactly when 30 passed requests of its IP lie within the
\* last 10,000 ms; the rejected requests are not recorded (the log of an IP
\* holds timestamps of passed requests only); and a request of one IP leaves
\* the log and the passed requests of every other IP as they were.
PassedWithin(timestamps, from, to) ==
    Cardinality({k \in 1..Len(timestamps) :
                    /\ timestamps[k] >= from
                    /\ timestamps[k] <= to
                    /\ to - timestamps[k] < WINDOW_MS})
RateLimited(log, timestamps, handledBy, answer, ip) ==
    /\ \A from \in Range(timestamps[ip]), to \in Range(timestamps[ip]) :
          PassedWithin(timestamps[ip], from, to) <= LIMIT
    /\ Range(log[ip]) \subseteq Range(timestamps[ip])
    /\ Len(log[ip]) <= Len(timestamps[ip])
    /\ Len(timestamps[ip]) <= handledBy[ip]
    /\ answer.ip = ip =>
          /\ answer.status \in {200, 429}
          /\ answer.status = 429
                <=> PassedWithin(IF answer.status = 200
                                 THEN SubSeq(timestamps[ip], 1, Len(timestamps[ip]) - 1)
                                 ELSE timestamps[ip],
                                 0, answer.at) >= LIMIT
C27_RateLimit ==
    [][\A ip \in IPs :
          /\ RateLimited(requestLog', passed', handled', lastResponse', ip)
          /\ lastResponse'.ip # ip =>
                /\ requestLog'[ip] = requestLog[ip]
                /\ passed'[ip] = passed[ip]
                /\ handled'[ip] = handled[ip]
          /\ (lastResponse'.ip = ip /\ lastResponse'.status = 429) =>
                /\ passed'[ip] = passed[ip]
                /\ Len(requestLog'[ip]) = LIMIT]_vars
\* the 31st request of the first client within the window is rejected, after
\* the request of the second client has been passed on
C27_Witness ==
    /\ lastResponse = [status |-> 429, ip |-> "10.0.0.1", at |-> WINDOW_MS - 1]
    /\ Len(passed["10.0.0.1"]) = LIMIT
    /\ passed["10.0.0.1"][1] = 0
    /\ handled["10.0.0.1"] = LIMIT + 1
    /\ passed["10.0.0.2"] = <<WINDOW_MS - 1>>

\* what a request leaves alone when it writes nothing
NothingWritten ==
    UNCHANGED <<file, nova_documents, transaction_summaries, ai_analyses,
                insights, goals, startsOf>>
CarriesConfiguredSecret(sent) ==
    /\ sent.configuredSecret.defined
    /\ sent.configuredSecret.value # ""
    /\ sent.internalSecret = sent.configuredSecret
FromOwner(sent) == sent.user # "none" /\ sent.user = UserOf(sent.doc)

\* C28: the already-processed short circuit.  A request without the force
\* flag, from a sender who may process the document, for a document whose
\* status is completed, whose processed_at is set and whose transaction_count
\* is greater than 0 is answered alreadyProcessed, and the step leaves the
\* document record, every row of transaction_summaries and the tables of
\* analyses, insights and goals as they were.
C28_AlreadyProcessedChangesNothing ==
    [][(/\ Free("r1")
        /\ ~request'.forceReprocess
        /\ CarriesConfiguredSecret(request') \/ FromOwner(request')
        /\ nova_documents[request'.doc].processing_status = "completed"
        /\ nova_documents[request'.doc].processed_at
        /\ nova_documents[request'.doc].transaction_count > 0)
       => /\ run'["r1"].pc = "returned"
          /\ run'["r1"].response = "alreadyProcessed"
          /\ run'["r1"].doc = request'.doc
          /\ NothingWritten]_vars
\* the owner asks again for a document that was processed into summaries
C28_Witness ==
    /\ run["r1"].response = "alreadyProcessed"
    /\ run["r1"].doc = request.doc
    /\ ~request.forceReprocess
    /\ request.user = "u1"
    /\ ~request.internalSecret.defined
    /\ nova_documents[request.doc].processing_status = "completed"
    /\ nova_documents[request.doc].transaction_count > 0
    /\ transaction_summaries # {}
    /\ Len(ai_analyses) = 1

\* C30: authorization of processing.  A request that neither carries the
\* configured internal secret nor comes from the authenticated owner of the
\* document is answered 401 and the step writes nothing (document status,
\* summaries, analyses, insights, goals); when no secret is configured (the
\* variable is not set or is empty) no value of x-internal-secret, the empty
\* string included, makes the request an internal call.
C30_Authorization ==
    [][/\ (/\ Free("r1")
           /\ ~CarriesConfiguredSecret(request')
           /\ ~FromOwner(request'))
          => /\ run'["r1"].pc = "returned"
             /\ run'["r1"].response = "unauthorized"
             /\ NothingWritten
       /\ (/\ Free("r1")
           /\ ~request'.configuredSecret.defined \/ request'.configuredSecret.value = ""
           /\ ~FromOwner(request'))
          => run'["r1"].response = "unauthorized"]_vars
\* with no secret configured, the empty header that the upload route sends
\* and the session of another user: 401, and the completed document of the
\* owner is as it was
C30_Witness ==
    /\ run["r1"].response = "unauthorized"
    /\ ~request.configuredSecret.defined
    /\ request.internalSecret = [defined |-> TRUE, value |-> ""]
    /\ request.user = "u2"
    /\ request.forceReprocess
    /\ nova_documents[request.doc].processing_status = "completed"
    /\ Len(ai_analyses) = 1

\* the transactions a document contributed to the rows of a table, as parsed
RECURSIVE ContributionOf(_, _)
ContributionOf(table, documentId) ==
    IF table = {} THEN <<>>
    ELSE LET row == CHOOSE first \in table :
                       \A other \in table : first.summary_month <= other.summary_month
             tagged == TaggedWith(row.all_transactions, documentId)
         IN  [i \in 1..Len(tagged) |->
                [date |-> tagged[i].date, description |-> tagged[i].description,
                 amount |-> tagged[i].amount, category |-> tagged[i].category]]
             \o ContributionOf(table \ {row}, documentId)
SameMultiset(s, t) ==
    /\ Len(s) = Len(t)
    /\ \A x \in Range(s) :
          Cardinality({i \in 1..Len(s) : s[i] = x})
             = Cardinality({i \in 1..Len(t) : t[i] = x})
SameMonths(one, other) ==
    /\ {row.summary_month : row \in one} = {row.summary_month : row \in other}
    /\ \A a \in one, b \in other :
          (a.user_id = b.user_id /\ a.summary_month = b.summary_month) =>
             /\ a.total_income = b.total_income
             /\ a.income_count = b.income_count
             /\ a.income_by_source = b.income_by_source
             /\ a.total_expenses = b.total_expenses
             /\ a.expense_count = b.expense_count
             /\ a.expenses_by_category = b.expenses_by_category
             /\ SameMultiset(a.all_transactions, b.all_transactions)
\* the run of r1 is the first of its document and has merged its rows into a
\* table that held the rows of the first run of the other document only
SecondOfTwo(d, other) ==
    /\ run["r1"].pc = "analyze"
    /\ run["r1"].doc = d
    /\ other # d
    /\ startsOf[d] = 1
    /\ startsOf[other] = 1
    /\ summariesAtStart # {}

====
